---- MODULE Spec2Model ----
(***************************************************************************)
(* Verification model of the Fortran I/O runtime (f18 runtime/):           *)
(*   - IoErrorHandler   (runtime/io-error.cpp)   specification SpecErr     *)
(*   - UnitMap and the ExternalFileUnit lifecycle and locking              *)
(*     (runtime/unit-map.cpp, runtime/unit.cpp, runtime/unit.h)            *)
(*                                                 specification SpecMap    *)
(*   - ExternalFileUnit::GetUnitMap, step by step  specification SpecInit  *)
(*   - ExternalFileUnit::OpenUnit                  specification SpecOpen  *)
(*   - the record engine of one ExternalFileUnit: Emit, NextChar,          *)
(*     SetLeftTabLimit, AdvanceRecord              specification SpecUnit  *)
(*   - InternalDescriptorUnit (runtime/internal-unit.cpp)                  *)
(*                                             specification SpecInternal  *)
(*   - ExternalFileUnit::Emit beside InternalDescriptorUnit::Emit          *)
(*                                                 specification SpecPair  *)
(*   - EditIntegerInput, EditBOZInput (runtime/numeric-input.cpp)          *)
(*                                              specification SpecInteger  *)
(*   - EditRealInput, ScanRealInput (runtime/numeric-input.cpp)            *)
(*                                                 specification SpecReal  *)
(*   - IoErrorHandler::GetIoMsg (runtime/io-error.cpp)                     *)
(*                                                specification SpecIoMsg  *)
(* Each specification moves only its own group of variables; the other     *)
(* groups stay at their initial values.                                    *)
(***************************************************************************)
EXTENDS Integers, Sequences, FiniteSets, TLC

VARIABLES
  \* ---- IoErrorHandler (one statement's handler) ----
  flags_,      \* set of requested specifiers
  ioStat_,     \* recorded condition code
  ioMsg_,      \* saved message, or NoMsg
  epc,         \* function the handler is executing: "idle", "SignalError",
               \* "SignalEnd", "SignalEor", or terminal "Crash"/"StackOverflow"
  iostatOrErrno, \* argument of the SignalError activation being executed
  msg,         \* message argument of that activation
  depth,       \* number of stacked activations of Signal* functions
  entry,       \* the Signal* function the caller called last ("none" after Begin)
  tailCalls,   \* whether this build turns the trailing calls into jumps
  \* ---- UnitMap, its units and the threads using them ----
  unitMap_,    \* ExternalFileUnit::unitMap_ is not null
  bucket_,     \* UnitMap::bucket_: head of each hash chain (0 is nullptr)
  closing_,    \* UnitMap::closing_: head of the chain of units being closed
  lock_,       \* UnitMap::lock_: the thread in a critical section, or NoThread
  chain,       \* every Chain node allocated so far; a node's index is its address
  pc,          \* per thread: where it is in the registry operation it runs
  ref,         \* per thread: the unit its last lookup returned (0 is nullptr)
  closeStep,   \* per thread: "none", or how far its CLOSE of ref has come:
               \* "looked" (LookUpForClose returned ref), "ended" (its
               \* statement on ref has ended, DestroyClosed is due)
  inStmt,      \* per thread: between BeginIoStatement and EndIoStatement on ref
  n,           \* per thread: unit number argument of the running operation
  p,           \* per thread: local Chain *p of the running operation
  previous,    \* per thread: local Chain *previous of the running operation
  lastIo       \* the last operation on a unit's backing store, and whether
               \* the thread doing it was holding UnitMap::lock_

VARIABLES
  \* ---- ExternalFileUnit::GetUnitMap, statement by statement ----
  unitMapPtr,    \* ExternalFileUnit::unitMap_: 0 is nullptr, else a map's index
  defaultOutput, \* the file-static defaultOutput: <<map, unit>>, or <<0, 0>>
  maps,          \* every UnitMap allocated so far, by index
  gpc,           \* per thread: the statement of GetUnitMap it is about to run
  gunit,         \* per thread: the local reference out / in, as <<map, unit>>
  created,       \* per thread: this call of GetUnitMap allocated a map
  gret           \* per thread: the map its last GetUnitMap returned (0: none yet)

VARIABLES
  \* ---- one ExternalFileUnit: its connection (OpenUnit) ----
  isOpen,      \* OpenFile::IsOpen()
  path,        \* OpenFile::path(), a sequence of bytes, or NullPath
  effects,     \* what the last OpenUnit call did, in order
  openArgs     \* the arguments of the last OpenUnit call

VARIABLES
  \* ---- one ExternalFileUnit: its record engine ----
  isReading_,               \* ExternalFileUnit::isReading_
  isUnformatted,            \* ConnectionState::isUnformatted
  access,                   \* ConnectionState::access
  recordLength,             \* std::optional: None, or the length
  positionInRecord,
  furthestPositionInRecord,
  leftTabLimit,             \* std::optional: None, or the limit
  currentRecordNumber,
  endfileRecordNumber,      \* std::optional: None, or the number
  offsetInFile,
  nonAdvancing,
  file,          \* the bytes of the connected file, as seen through the frame
  recoverable,   \* the statement's handler has IOSTAT= or ERR=
  crashed,       \* the handler has ended the process
  signalled,     \* what the last operation signalled to the handler
  result,        \* the last operation and what it returned
  \* history, for stating the properties
  written,       \* <<payload>> of the first record completed since OPEN, or <<>>
  readBack,      \* payloads of the records accepted since the file was opened
  loads,         \* next-record operations run since the file was opened
  roundTrip      \* the file being read is the one this unit wrote

VARIABLES
  \* ---- one InternalDescriptorUnit<isInput> ----
  internal,      \* its members, and the character array it overlays
  internalOut    \* the last operation on it: what it was given, returned
                 \* and signalled

VARIABLES
  \* ---- one call of an input edit function (numeric-input.cpp) ----
  numIn,         \* the call: the DataEdit, the kind and the field's characters
  numOut         \* its outcome: the return value, the condition signalled,
                 \* what was stored in the destination

errVars == <<flags_, ioStat_, ioMsg_, epc, iostatOrErrno, msg, depth, entry, tailCalls>>

mapVars == <<unitMap_, bucket_, closing_, lock_, chain, pc, ref, closeStep, inStmt,
             n, p, previous, lastIo>>

initVars == <<unitMapPtr, defaultOutput, maps, gpc, gunit, created, gret>>

openVars == <<isOpen, path, effects, openArgs>>

unitVars == <<isReading_, isUnformatted, access, recordLength, positionInRecord,
              furthestPositionInRecord, leftTabLimit, currentRecordNumber,
              endfileRecordNumber, offsetInFile, nonAdvancing, file, recoverable,
              crashed, signalled, result, written, readBack, loads,
              roundTrip>>

intVars == <<internal, internalOut>>

numVars == <<numIn, numOut>>

VARIABLES
  \* ---- one call of IoErrorHandler::GetIoMsg ----
  msgIn,         \* the call: where the message comes from, its characters,
                 \* bufferLength
  msgOut         \* its outcome: the return value, the caller's buffer, the
                 \* bytes stored behind it, the bytes read of the message

msgVars == <<msgIn, msgOut>>

vars ==
  <<errVars, mapVars, initVars, openVars, unitVars, intVars, numVars, msgVars>>

\* Everything SpecErr leaves alone.
notErr ==
  <<mapVars, initVars, openVars, unitVars, intVars, numVars, msgVars>>

\* Everything SpecMap leaves alone.
notMap ==
  <<errVars, initVars, openVars, unitVars, intVars, numVars, msgVars>>

\* Everything SpecInit leaves alone.
notInit ==
  <<errVars, mapVars, openVars, unitVars, intVars, numVars, msgVars>>

\* Everything SpecOpen leaves alone.
notOpen ==
  <<errVars, mapVars, initVars, unitVars, intVars, numVars, msgVars>>

\* Everything SpecUnit leaves alone.
notUnit ==
  <<errVars, mapVars, initVars, openVars, intVars, numVars, msgVars>>

\* Everything SpecInternal leaves alone.
notInternal ==
  <<errVars, mapVars, initVars, openVars, unitVars, numVars, msgVars>>

\* Everything SpecInteger and SpecReal leave alone.
notNum ==
  <<errVars, mapVars, initVars, openVars, unitVars, intVars, msgVars>>

\* Everything SpecIoMsg leaves alone.
notMsg == <<errVars, mapVars, initVars, openVars, unitVars, intVars, numVars>>

(***************************************************************************)
(* IoErrorHandler                                                          *)
(***************************************************************************)

\* Condition codes.  The header that sets them is not part of the sources
\* at hand; the values follow the documented layout: zero is success, errors
\* are positive, end-of-file and end-of-record are two negative sentinels.
IoErrorEnd == -1
IoErrorEor == -2

\* Largest positive error code the callers pass (codes 1..MaxCode).
MaxCode == 2

\* Stack capacity, in activations of the Signal* functions.
MaxDepth == 3

hasIoStat == "hasIoStat"
hasErr == "hasErr"
hasEnd == "hasEnd"
hasEor == "hasEor"
hasIoMsg == "hasIoMsg"
Flags == {hasIoStat, hasErr, hasEnd, hasEor, hasIoMsg}

NoMsg == "null"
Msgs == {"msg1", "msg2"}

Codes == {0, IoErrorEnd, IoErrorEor} \cup (1..MaxCode)

ErrInit ==
  /\ flags_ = {}
  /\ ioStat_ = 0
  /\ ioMsg_ = NoMsg
  /\ epc = "idle"
  /\ iostatOrErrno = 0
  /\ msg = NoMsg
  /\ depth = 0
  /\ entry = "none"
  /\ tailCalls \in BOOLEAN

\* IoErrorHandler::Begin: a new statement starts with nothing requested and
\* nothing recorded.
Begin ==
  /\ epc = "idle"
  /\ flags_' = {}
  /\ ioStat_' = 0
  /\ ioMsg_' = NoMsg
  /\ entry' = "none"
  /\ UNCHANGED <<epc, iostatOrErrno, msg, depth, tailCalls>>
  /\ UNCHANGED notErr

\* HasIoStat / HasErrLabel / HasEndLabel / HasEorLabel / HasIoMsg: the caller
\* registers one specifier.
HasFlag ==
  /\ epc = "idle"
  /\ \E f \in Flags \ flags_ : flags_' = flags_ \cup {f}
  /\ UNCHANGED <<ioStat_, ioMsg_, epc, iostatOrErrno, msg, depth, entry, tailCalls>>
  /\ UNCHANGED notErr

\* The caller's calls: they only start an activation.
CallSignalError ==
  /\ epc = "idle"
  /\ \E code \in Codes, m \in Msgs \cup {NoMsg} :
       /\ iostatOrErrno' = code
       /\ msg' = m
  /\ epc' = "SignalError"
  /\ entry' = "SignalError"
  /\ depth' = 1
  /\ UNCHANGED <<flags_, ioStat_, ioMsg_, tailCalls>>
  /\ UNCHANGED notErr

CallSignalEnd ==
  /\ epc = "idle"
  /\ epc' = "SignalEnd"
  /\ entry' = "SignalEnd"
  /\ depth' = 1
  /\ UNCHANGED <<flags_, ioStat_, ioMsg_, iostatOrErrno, msg, tailCalls>>
  /\ UNCHANGED notErr

CallSignalEor ==
  /\ epc = "idle"
  /\ epc' = "SignalEor"
  /\ entry' = "SignalEor"
  /\ depth' = 1
  /\ UNCHANGED <<flags_, ioStat_, ioMsg_, iostatOrErrno, msg, tailCalls>>
  /\ UNCHANGED notErr

\* The activation returns to the caller of the outermost Signal* call (every
\* nested call is the last thing its caller does).
Return ==
  /\ epc' = "idle"
  /\ depth' = 0

\* A call in tail position to a Signal* function f: a jump in a build that
\* optimises tail calls, one more frame otherwise; no frame left is the end
\* of the process.
Nested(f) ==
  IF tailCalls
    THEN /\ epc' = f
         /\ depth' = depth
    ELSE IF depth < MaxDepth
      THEN /\ epc' = f
           /\ depth' = depth + 1
      ELSE /\ epc' = "StackOverflow"
           /\ depth' = depth

\* Crash(...): diagnostic, then the process ends.
Crash ==
  /\ epc' = "Crash"
  /\ depth' = depth

SignalError_Overwrite ==
  /\ epc = "SignalError"
  /\ IF iostatOrErrno = IoErrorEnd
       THEN Nested("SignalEnd") /\ UNCHANGED <<ioStat_, ioMsg_, iostatOrErrno, msg>>
     ELSE IF iostatOrErrno = IoErrorEor
       THEN Nested("SignalEor") /\ UNCHANGED <<ioStat_, ioMsg_, iostatOrErrno, msg>>
     ELSE IF iostatOrErrno # 0
       THEN IF flags_ \cap {hasIoStat, hasErr} # {}
              THEN /\ ioStat_' = iostatOrErrno
                   /\ ioMsg_' = IF msg # NoMsg /\ hasIoMsg \in flags_
                                  THEN msg ELSE ioMsg_
                   /\ Return
                   /\ UNCHANGED <<iostatOrErrno, msg>>
              ELSE Crash /\ UNCHANGED <<ioStat_, ioMsg_, iostatOrErrno, msg>>
     ELSE Return /\ UNCHANGED <<ioStat_, ioMsg_, iostatOrErrno, msg>>
  /\ UNCHANGED <<flags_, entry, tailCalls>>
  /\ UNCHANGED notErr

\* IoErrorHandler::SignalError(int iostatOrErrno, const char *msg, ...)
SignalError ==
  /\ epc = "SignalError"
  /\ IF iostatOrErrno = IoErrorEnd
       THEN Nested("SignalEnd") /\ UNCHANGED <<ioStat_, ioMsg_, iostatOrErrno, msg>>
     ELSE IF iostatOrErrno = IoErrorEor
       THEN Nested("SignalEor") /\ UNCHANGED <<ioStat_, ioMsg_, iostatOrErrno, msg>>
     ELSE IF iostatOrErrno # 0
       THEN IF flags_ \cap {hasIoStat, hasErr} # {}
              THEN /\ IF ioStat_ <= 0
                        THEN /\ ioStat_' = iostatOrErrno
                             /\ ioMsg_' = IF msg # NoMsg /\ hasIoMsg \in flags_
                                            THEN msg ELSE ioMsg_
                        ELSE UNCHANGED <<ioStat_, ioMsg_>>
                   /\ Return
                   /\ UNCHANGED <<iostatOrErrno, msg>>
              ELSE \* FortranErrorString(code) or strerror(code): Crash either way
                   Crash /\ UNCHANGED <<ioStat_, ioMsg_, iostatOrErrno, msg>>
     ELSE Return /\ UNCHANGED <<ioStat_, ioMsg_, iostatOrErrno, msg>>
  /\ UNCHANGED <<flags_, entry, tailCalls>>
  /\ UNCHANGED notErr

SignalEnd_NoPriority ==
  /\ epc = "SignalEnd"
  /\ IF hasEnd \in flags_
       THEN /\ ioStat_' = IoErrorEnd
            /\ Return
            /\ UNCHANGED <<iostatOrErrno, msg>>
       ELSE /\ iostatOrErrno' = IoErrorEnd
            /\ msg' = NoMsg
            /\ Nested("SignalError")
            /\ UNCHANGED ioStat_
  /\ UNCHANGED <<flags_, ioMsg_, entry, tailCalls>>
  /\ UNCHANGED notErr

\* IoErrorHandler::SignalEnd()
SignalEnd ==
  /\ epc = "SignalEnd"
  /\ IF hasEnd \in flags_
       THEN /\ ioStat_' = IF ioStat_ = 0 \/ ioStat_ < IoErrorEnd
                            THEN IoErrorEnd ELSE ioStat_
            /\ Return
            /\ UNCHANGED <<iostatOrErrno, msg>>
       ELSE \* SignalError(IoErrorEnd), i.e. SignalError(IoErrorEnd, nullptr)
            /\ iostatOrErrno' = IoErrorEnd
            /\ msg' = NoMsg
            /\ Nested("SignalError")
            /\ UNCHANGED ioStat_
  /\ UNCHANGED <<flags_, ioMsg_, entry, tailCalls>>
  /\ UNCHANGED notErr

\* IoErrorHandler::SignalEor()
SignalEor ==
  /\ epc = "SignalEor"
  /\ IF hasEor \in flags_
       THEN /\ ioStat_' = IF ioStat_ = 0 \/ ioStat_ < IoErrorEor
                            THEN IoErrorEor ELSE ioStat_
            /\ Return
            /\ UNCHANGED <<iostatOrErrno, msg>>
       ELSE \* SignalError(IoErrorEor)
            /\ iostatOrErrno' = IoErrorEor
            /\ msg' = NoMsg
            /\ Nested("SignalError")
            /\ UNCHANGED ioStat_
  /\ UNCHANGED <<flags_, ioMsg_, entry, tailCalls>>
  /\ UNCHANGED notErr

(***************************************************************************)
(* UnitMap, ExternalFileUnit lifecycle and locking                         *)
(*                                                                         *)
(* Threads call the registry operations and the per-unit statement         *)
(* operations.  A critical section is a pair of steps at least (enter,     *)
(* leave), so the registry lock is visible while it is held.  Two steps    *)
(* are taken as one: reading unitMap_ in GetUnitMap with taking that       *)
(* map's lock, and leaving UnitMap::CloseAll with freeing the map.         *)
(***************************************************************************)

Threads == {"t1", "t2"}
NoThread == "none"

\* Unit numbers the threads ask for: 5 is predefined (as 6 is), 7 is a user
\* unit that shares 5's hash chain.
UnitNumbers == {5, 7}

\* UnitMap::buckets_, scaled down so that chains hold more than one unit.
Buckets == 2

\* Chain nodes the process may allocate in all.
MaxInst == 4

\* UnitMap::Hash
Hash(k) == k % Buckets

\* A freshly constructed Chain{n} whose next is nx.
NewChain(k, nx) ==
  [unitNumber_ |-> k,        \* ExternalFileUnit::unitNumber_
   next |-> nx,              \* Chain::next
   lock_ |-> NoThread,       \* ExternalFileUnit::lock_
   u_ |-> "monostate",       \* ExternalFileUnit::u_, the active statement
   wasClosing |-> FALSE,     \* history: LookUpForClose moved it to closing_
   freed |-> FALSE]          \* destructor run and memory released

Allocated == 1..Len(chain)
Live == {u \in Allocated : ~chain[u].freed}

\* The nodes reached from head by following next (at most one pass over
\* the allocated nodes).
RECURSIVE ChainFrom(_, _, _)
ChainFrom(ch, head, fuel) ==
  IF head = 0 \/ fuel = 0 THEN <<>>
  ELSE <<head>> \o ChainFrom(ch, ch[head].next, fuel - 1)

Nodes(head) == ChainFrom(chain, head, Len(chain))

\* The loop of LookUpForClose / Find: <<previous, p>> for the first node of
\* the chain from head whose unit has number k, <<_, 0>> when there is none.
SearchNumber(head, k) ==
  LET s == Nodes(head)
      hits == {i \in 1..Len(s) : chain[s[i]].unitNumber_ = k}
  IN IF hits = {} THEN <<0, 0>>
     ELSE LET i == CHOOSE j \in hits : \A h \in hits : j <= h
          IN <<IF i = 1 THEN 0 ELSE s[i - 1], s[i]>>

\* The loop of DestroyClosed: the same for the node whose unit is unit u.
SearchUnit(head, u) ==
  LET s == Nodes(head)
      hits == {i \in 1..Len(s) : s[i] = u}
  IN IF hits = {} THEN <<0, 0>>
     ELSE LET i == CHOOSE j \in hits : \A h \in hits : j <= h
          IN <<IF i = 1 THEN 0 ELSE s[i - 1], s[i]>>

\* UnitMap::LookUp / Find: the unit numbered k in the live table, or 0.
Find(k) == SearchNumber(bucket_[Hash(k)], k)[2]

\* UnitMap::Create on a table (ch, bk): the new node is linked at the head
\* of its bucket.
Create(ch, bk, k) ==
  [chain |-> Append(ch, NewChain(k, bk[Hash(k)])),
   bucket |-> [bk EXCEPT ![Hash(k)] = Len(ch) + 1]]

EmptyBuckets == [j \in 0..(Buckets - 1) |-> 0]

NoIo == [op |-> "none", lockHeld |-> FALSE, in |-> "none"]

\* Writes through a pointer to a freed node land in released memory, which
\* the model does not follow: the node's record stays as the destructor
\* left it.
Store(ch, u, field, value) ==
  IF ch[u].freed THEN ch ELSE [ch EXCEPT ![u][field] = value]

Destroyed(ch, u) ==
  [ch EXCEPT ![u] = [unitNumber_ |-> ch[u].unitNumber_, next |-> 0,
                     lock_ |-> NoThread, u_ |-> "monostate",
                     wasClosing |-> ch[u].wasClosing, freed |-> TRUE]]

MapInit ==
  /\ unitMap_ = FALSE
  /\ bucket_ = EmptyBuckets
  /\ closing_ = 0
  /\ lock_ = NoThread
  /\ chain = <<>>
  /\ pc = [t \in Threads |-> "idle"]
  /\ ref = [t \in Threads |-> 0]
  /\ closeStep = [t \in Threads |-> "none"]
  /\ inStmt = [t \in Threads |-> FALSE]
  /\ n = [t \in Threads |-> 0]
  /\ p = [t \in Threads |-> 0]
  /\ previous = [t \in Threads |-> 0]
  /\ lastIo = NoIo

\* A thread died on a freed unit: the process is gone.
Faulted == \E t \in Threads : pc[t] = "fault"

\* A thread between two statements: it runs no operation and holds no unit.
Idle(t) == ~Faulted /\ pc[t] = "idle" /\ ~inStmt[t] /\ ref[t] = 0

\* The locals of an operation die with its return.
ReturnTo(t) ==
  /\ pc' = [pc EXCEPT ![t] = "idle"]
  /\ n' = [n EXCEPT ![t] = 0]
  /\ p' = [p EXCEPT ![t] = 0]
  /\ previous' = [previous EXCEPT ![t] = 0]

\* ExternalFileUnit::GetUnitMap followed by CriticalSection critical{lock_}
\* of the registry operation that called it: the map is created on first
\* use, with units 6 and 5, and its lock is taken.  `room` is the number of
\* nodes the operation itself may allocate.
EnterUnitMap(t, room) ==
  /\ lock_ = NoThread
  /\ lock_' = t
  /\ closing_' = closing_
  /\ IF unitMap_
       THEN /\ Len(chain) + room <= MaxInst
            /\ UNCHANGED <<unitMap_, bucket_, chain>>
       ELSE /\ Len(chain) + 2 + room <= MaxInst
            /\ unitMap_' = TRUE
            /\ LET out == Create(chain, bucket_, 6)
                   in == Create(out.chain, out.bucket, 5)
               IN /\ chain' = in.chain
                  /\ bucket_' = in.bucket

\* ---- ExternalFileUnit::LookUpOrCreate -> UnitMap::LookUpOrCreate ----
LookUpOrCreate_Enter(t) ==
  /\ Idle(t)
  /\ \E k \in UnitNumbers :
       /\ n' = [n EXCEPT ![t] = k]
       /\ EnterUnitMap(t, IF (unitMap_ /\ Find(k) = 0) \/ (~unitMap_ /\ k \notin {5, 6})
                            THEN 1 ELSE 0)
  /\ pc' = [pc EXCEPT ![t] = "LookUpOrCreate"]
  /\ UNCHANGED <<ref, closeStep, inStmt, p, previous, lastIo>>
  /\ UNCHANGED notMap

\* Find(n), else Create(n); the critical section ends with the return.
LookUpOrCreate(t) ==
  /\ ~Faulted /\ pc[t] = "LookUpOrCreate"
  /\ IF Find(n[t]) # 0
       THEN /\ ref' = [ref EXCEPT ![t] = Find(n[t])]
            /\ UNCHANGED <<chain, bucket_>>
       ELSE /\ LET c == Create(chain, bucket_, n[t])
               IN /\ chain' = c.chain
                  /\ bucket_' = c.bucket
            /\ ref' = [ref EXCEPT ![t] = Len(chain) + 1]
  /\ closeStep' = [closeStep EXCEPT ![t] = "none"]
  /\ lock_' = NoThread
  /\ ReturnTo(t)
  /\ UNCHANGED <<unitMap_, closing_, inStmt, lastIo>>
  /\ UNCHANGED notMap

\* ---- ExternalFileUnit::LookUpForClose -> UnitMap::LookUpForClose ----
LookUpForClose_Enter_NoLock(t) ==
  /\ Idle(t)
  /\ unitMap_
  /\ \E k \in UnitNumbers : n' = [n EXCEPT ![t] = k]
  /\ pc' = [pc EXCEPT ![t] = "LookUpForClose_find"]
  /\ UNCHANGED <<unitMap_, bucket_, closing_, lock_, chain, ref, closeStep, inStmt,
                 p, previous, lastIo>>
  /\ UNCHANGED notMap

LookUpForClose_Enter(t) ==
  /\ Idle(t)
  /\ \E k \in UnitNumbers : n' = [n EXCEPT ![t] = k]
  /\ EnterUnitMap(t, 0)
  /\ pc' = [pc EXCEPT ![t] = "LookUpForClose_find"]
  /\ UNCHANGED <<ref, closeStep, inStmt, p, previous, lastIo>>
  /\ UNCHANGED notMap

\* The for loop: it ends at the node numbered n, or at the end of the chain
\* (return nullptr, which leaves the critical section).
LookUpForClose_Find(t) ==
  /\ ~Faulted /\ pc[t] = "LookUpForClose_find"
  /\ LET r == SearchNumber(bucket_[Hash(n[t])], n[t])
     IN IF r[2] # 0
          THEN /\ previous' = [previous EXCEPT ![t] = r[1]]
               /\ p' = [p EXCEPT ![t] = r[2]]
               /\ pc' = [pc EXCEPT ![t] = "LookUpForClose_move"]
               /\ UNCHANGED <<ref, closeStep, lock_, n>>
          ELSE /\ ref' = [ref EXCEPT ![t] = 0]
               /\ closeStep' = [closeStep EXCEPT ![t] = "none"]
               /\ lock_' = NoThread
               /\ ReturnTo(t)
  /\ UNCHANGED <<unitMap_, bucket_, closing_, chain, inStmt, lastIo>>
  /\ UNCHANGED notMap

LookUpForClose_Move_NoUnlink(t) ==
  /\ ~Faulted /\ pc[t] = "LookUpForClose_move"
  /\ LET q == p[t]
     IN /\ bucket_' = bucket_
        /\ chain' = [chain EXCEPT ![q].next = closing_,
                                  ![q].wasClosing = TRUE]
        /\ closing_' = q
        /\ ref' = [ref EXCEPT ![t] = q]
  /\ closeStep' = [closeStep EXCEPT ![t] = "looked"]
  /\ lock_' = NoThread
  /\ ReturnTo(t)
  /\ UNCHANGED <<unitMap_, inStmt, lastIo>>
  /\ UNCHANGED notMap

\* Unlink p from its bucket, push it on closing_, return &p->unit.
LookUpForClose_Move(t) ==
  /\ ~Faulted /\ pc[t] = "LookUpForClose_move"
  /\ LET q == p[t]
         unlinked == IF previous[t] # 0
                       THEN [chain EXCEPT ![previous[t]].next = chain[q].next]
                       ELSE chain
     IN /\ bucket_' = IF previous[t] # 0 THEN bucket_
                      ELSE [bucket_ EXCEPT ![Hash(n[t])] = chain[q].next]
        /\ chain' = [unlinked EXCEPT ![q].next = closing_,
                                     ![q].wasClosing = TRUE]
        /\ closing_' = q
        /\ ref' = [ref EXCEPT ![t] = q]
  /\ closeStep' = [closeStep EXCEPT ![t] = "looked"]
  /\ lock_' = NoThread
  /\ ReturnTo(t)
  /\ UNCHANGED <<unitMap_, inStmt, lastIo>>
  /\ UNCHANGED notMap

\* ---- ExternalFileUnit::DestroyClosed -> UnitMap::DestroyClosed ----
\* Called by the CLOSE statement on the unit its LookUpForClose returned,
\* once its own statement on that unit has ended.
DestroyClosed_Enter(t) ==
  /\ ~Faulted /\ pc[t] = "idle" /\ ~inStmt[t]
  /\ ref[t] # 0 /\ closeStep[t] = "ended"
  /\ EnterUnitMap(t, 0)
  /\ pc' = [pc EXCEPT ![t] = "DestroyClosed_find"]
  /\ UNCHANGED <<ref, closeStep, inStmt, n, p, previous, lastIo>>
  /\ UNCHANGED notMap

\* The inner block: find the unit's node on closing_ and unlink it.
DestroyClosed_Unlink(t) ==
  /\ ~Faulted /\ pc[t] = "DestroyClosed_find"
  /\ LET r == SearchUnit(closing_, ref[t])
     IN /\ p' = [p EXCEPT ![t] = r[2]]
        /\ IF r[2] = 0
             THEN UNCHANGED <<chain, closing_>>
             ELSE IF r[1] # 0
               THEN /\ chain' = [chain EXCEPT ![r[1]].next = chain[r[2]].next]
                    /\ UNCHANGED closing_
               ELSE /\ closing_' = chain[r[2]].next
                    /\ UNCHANGED chain
  /\ lock_' = NoThread
  /\ pc' = [pc EXCEPT ![t] = "DestroyClosed_free"]
  /\ UNCHANGED <<unitMap_, bucket_, ref, closeStep, inStmt, n, previous, lastIo>>
  /\ UNCHANGED notMap

\* if (p) { p->unit.~ExternalFileUnit(); FreeMemory(p); }
DestroyClosed_Free(t) ==
  /\ ~Faulted /\ pc[t] = "DestroyClosed_free"
  /\ chain' = IF p[t] # 0 THEN Destroyed(chain, p[t]) ELSE chain
  /\ ref' = [ref EXCEPT ![t] = 0]
  /\ closeStep' = [closeStep EXCEPT ![t] = "none"]
  /\ ReturnTo(t)
  /\ UNCHANGED <<unitMap_, bucket_, closing_, lock_, inStmt, lastIo>>
  /\ UNCHANGED notMap

\* ---- ExternalFileUnit::CloseAll -> UnitMap::CloseAll ----
\* if (unitMap_) { ... unitMap_->CloseAll(handler): take the lock.
CloseAll_Enter(t) ==
  /\ Idle(t)
  /\ unitMap_
  /\ lock_ = NoThread
  /\ lock_' = t
  /\ pc' = [pc EXCEPT ![t] = "CloseAll_loop"]
  /\ UNCHANGED <<unitMap_, bucket_, closing_, chain, ref, closeStep, inStmt, n, p,
                 previous, lastIo>>
  /\ UNCHANGED notMap

NonEmptyBuckets == {j \in 0..(Buckets - 1) : bucket_[j] # 0}

\* for (j...) while (Chain *p{bucket_[j]}) { bucket_[j] = p->next;
CloseAll_Unlink(t) ==
  /\ ~Faulted /\ pc[t] = "CloseAll_loop"
  /\ NonEmptyBuckets # {}
  /\ LET j == CHOOSE i \in NonEmptyBuckets : \A h \in NonEmptyBuckets : i <= h
     IN /\ p' = [p EXCEPT ![t] = bucket_[j]]
        /\ bucket_' = [bucket_ EXCEPT ![j] = chain[bucket_[j]].next]
  /\ pc' = [pc EXCEPT ![t] = "CloseAll_close"]
  /\ UNCHANGED <<unitMap_, closing_, lock_, chain, ref, closeStep, inStmt, n,
                 previous, lastIo>>
  /\ UNCHANGED notMap

\* p->unit.CloseUnit(CloseStatus::Keep, handler): Flush, then Close.
CloseAll_CloseUnit(t) ==
  /\ ~Faulted /\ pc[t] = "CloseAll_close"
  /\ lastIo' = [op |-> "CloseUnit", lockHeld |-> (lock_ = t), in |-> "CloseAll"]
  /\ pc' = [pc EXCEPT ![t] = "CloseAll_destroy"]
  /\ UNCHANGED <<unitMap_, bucket_, closing_, lock_, chain, ref, closeStep, inStmt,
                 n, p, previous>>
  /\ UNCHANGED notMap

\* p->unit.~ExternalFileUnit(); FreeMemory(p); }
CloseAll_Destroy(t) ==
  /\ ~Faulted /\ pc[t] = "CloseAll_destroy"
  /\ chain' = Destroyed(chain, p[t])
  /\ pc' = [pc EXCEPT ![t] = "CloseAll_loop"]
  /\ p' = [p EXCEPT ![t] = 0]
  /\ UNCHANGED <<unitMap_, bucket_, closing_, lock_, ref, closeStep, inStmt, n,
                 previous, lastIo>>
  /\ UNCHANGED notMap

\* Every bucket is empty: UnitMap::CloseAll returns (the lock is dropped)
\* and FreeMemoryAndNullify(unitMap_) releases the map, with whatever is
\* still on its closing chain.
CloseAll_Return(t) ==
  /\ ~Faulted /\ pc[t] = "CloseAll_loop"
  /\ NonEmptyBuckets = {}
  /\ lock_' = NoThread
  /\ unitMap_' = FALSE
  /\ closing_' = 0
  /\ ReturnTo(t)
  /\ UNCHANGED <<bucket_, chain, ref, closeStep, inStmt, lastIo>>
  /\ UNCHANGED notMap

\* ---- statements on a unit ----
\* lock_.Take() of unit u is possible.  On a freed unit the memory holds
\* anything: the lock may look free whoever held it.
CanTake(u) == chain[u].freed \/ chain[u].lock_ = NoThread

BeginIoStatement_NoTake(t) ==
  /\ ~Faulted /\ pc[t] = "idle" /\ ~inStmt[t]
  /\ ref[t] # 0 /\ closeStep[t] # "ended"
  /\ chain' = Store(Store(chain, ref[t], "lock_", t), ref[t], "u_", "statement")
  /\ inStmt' = [inStmt EXCEPT ![t] = TRUE]
  /\ UNCHANGED <<unitMap_, bucket_, closing_, lock_, pc, ref, closeStep, n, p,
                 previous, lastIo>>
  /\ UNCHANGED notMap

\* ExternalFileUnit::BeginIoStatement: lock_.Take(), then u_.emplace<A>(...)
BeginIoStatement(t) ==
  /\ ~Faulted /\ pc[t] = "idle" /\ ~inStmt[t]
  /\ ref[t] # 0 /\ closeStep[t] # "ended"
  /\ CanTake(ref[t])
  /\ chain' = Store(Store(chain, ref[t], "lock_", t), ref[t], "u_", "statement")
  /\ inStmt' = [inStmt EXCEPT ![t] = TRUE]
  /\ UNCHANGED <<unitMap_, bucket_, closing_, lock_, pc, ref, closeStep, n, p,
                 previous, lastIo>>
  /\ UNCHANGED notMap

\* A data transfer within the statement (Emit, NextChar, AdvanceRecord):
\* WriteFrame / ReadFrame on the unit's file.
Transfer(t) ==
  /\ ~Faulted /\ pc[t] = "idle" /\ inStmt[t]
  /\ lastIo' = [op |-> "Transfer", lockHeld |-> (lock_ = t), in |-> "statement"]
  /\ UNCHANGED <<unitMap_, bucket_, closing_, lock_, chain, pc, ref, closeStep,
                 inStmt, n, p, previous>>
  /\ UNCHANGED notMap

\* ExternalFileUnit::CloseUnit within the statement: Flush, then Close.
CloseUnit(t) ==
  /\ ~Faulted /\ pc[t] = "idle" /\ inStmt[t]
  /\ lastIo' = [op |-> "CloseUnit", lockHeld |-> (lock_ = t), in |-> "statement"]
  /\ UNCHANGED <<unitMap_, bucket_, closing_, lock_, chain, pc, ref, closeStep,
                 inStmt, n, p, previous>>
  /\ UNCHANGED notMap

\* ExternalFileUnit::EndIoStatement: io_.reset(); u_ = monostate; lock_.Drop().
\* The statement is over: unless it is a CLOSE, which goes on to
\* DestroyClosed, the thread lets go of the unit.
EndIoStatement(t) ==
  /\ ~Faulted /\ pc[t] = "idle" /\ inStmt[t]
  /\ chain' = Store(Store(chain, ref[t], "lock_", NoThread), ref[t], "u_", "monostate")
  /\ inStmt' = [inStmt EXCEPT ![t] = FALSE]
  /\ ref' = [ref EXCEPT ![t] = IF closeStep[t] = "looked" THEN ref[t] ELSE 0]
  /\ closeStep' = [closeStep EXCEPT ![t] =
                     IF closeStep[t] = "looked" THEN "ended" ELSE "none"]
  /\ UNCHANGED <<unitMap_, bucket_, closing_, lock_, pc, n, p,
                 previous, lastIo>>
  /\ UNCHANGED notMap

\* A member function called on a unit that has been freed may also end the
\* process there and then.
UseAfterFree(t) ==
  /\ ~Faulted /\ pc[t] = "idle"
  /\ ref[t] # 0 /\ chain[ref[t]].freed
  /\ pc' = [pc EXCEPT ![t] = "fault"]
  /\ UNCHANGED <<unitMap_, bucket_, closing_, lock_, chain, ref, closeStep, inStmt,
                 n, p, previous, lastIo>>
  /\ UNCHANGED notMap

(***************************************************************************)
(* ExternalFileUnit::GetUnitMap, statement by statement                    *)
(*                                                                         *)
(* GetUnitMap tests and sets the static unitMap_ without any lock, so its  *)
(* statements interleave freely between threads.  Here every statement is  *)
(* a step; UnitMap::LookUpOrCreate, which runs under the map's own lock,   *)
(* is one step.  CloseAll is taken while no thread is inside GetUnitMap.   *)
(***************************************************************************)

\* UnitMap objects the process may allocate in all.
MaxMaps == 3

\* A freshly constructed ExternalFileUnit{k}: no descriptor, nothing
\* permitted; `predefined` records that Predefine and the three setters ran.
NewUnit(k) ==
  [unitNumber_ |-> k, fd_ |-> -1, predefined |-> FALSE,
   mayRead |-> FALSE, mayWrite |-> FALSE, mayPosition |-> FALSE]

NewMap == [units |-> <<>>, freed |-> FALSE]

\* UnitMap::LookUp in map m: the index of the unit numbered k, or 0.
FindIn(m, k) ==
  LET hits == {i \in 1..Len(maps[m].units) : maps[m].units[i].unitNumber_ = k}
  IN IF hits = {} THEN 0 ELSE CHOOSE i \in hits : \A h \in hits : i <= h

GetUnitMapInit ==
  /\ unitMapPtr = 0
  /\ defaultOutput = <<0, 0>>
  /\ maps = <<>>
  /\ gpc = [t \in Threads |-> "idle"]
  /\ gunit = [t \in Threads |-> <<0, 0>>]
  /\ created = [t \in Threads |-> FALSE]
  /\ gret = [t \in Threads |-> 0]

\* if (unitMap_) { return *unitMap_; }
GetUnitMap_Test(t) ==
  /\ gpc[t] = "idle"
  /\ IF unitMapPtr # 0
       THEN /\ gret' = [gret EXCEPT ![t] = unitMapPtr]
            /\ UNCHANGED gpc
       ELSE /\ Len(maps) + Cardinality({u \in Threads : gpc[u] = "new"}) < MaxMaps
            /\ gpc' = [gpc EXCEPT ![t] = "new"]
            /\ UNCHANGED gret
  /\ created' = [created EXCEPT ![t] = FALSE]
  /\ UNCHANGED <<unitMapPtr, defaultOutput, maps, gunit>>
  /\ UNCHANGED notInit

\* unitMap_ = &New<UnitMap>{}(terminator);
GetUnitMap_New(t) ==
  /\ gpc[t] = "new"
  /\ maps' = Append(maps, NewMap)
  /\ unitMapPtr' = Len(maps) + 1
  /\ created' = [created EXCEPT ![t] = TRUE]
  /\ gpc' = [gpc EXCEPT ![t] = "out"]
  /\ UNCHANGED <<defaultOutput, gunit, gret>>
  /\ UNCHANGED notInit

\* ExternalFileUnit::LookUpOrCreate(k, terminator): GetUnitMap() reads
\* unitMap_ again, then the unit is found or created in that map.
GetUnitMap_LookUpOrCreate(t, k, then) ==
  LET m == unitMapPtr
      i == FindIn(m, k)
  IN /\ m # 0
     /\ IF i # 0
          THEN /\ gunit' = [gunit EXCEPT ![t] = <<m, i>>]
               /\ UNCHANGED maps
          ELSE /\ gunit' = [gunit EXCEPT ![t] = <<m, Len(maps[m].units) + 1>>]
               /\ maps' = [maps EXCEPT ![m].units = Append(@, NewUnit(k))]
     /\ gpc' = [gpc EXCEPT ![t] = then]
     /\ UNCHANGED <<unitMapPtr, defaultOutput, created, gret>>
     /\ UNCHANGED notInit

\* u.Predefine(fd); u.set_mayRead(r); u.set_mayWrite(w); u.set_mayPosition(false);
Predefined(u, fd, r, w) ==
  [u EXCEPT !.fd_ = fd, !.predefined = TRUE,
            !.mayRead = r, !.mayWrite = w, !.mayPosition = FALSE]

\* ExternalFileUnit &out{ExternalFileUnit::LookUpOrCreate(6, terminator)};
GetUnitMap_Out(t) ==
  /\ gpc[t] = "out"
  /\ GetUnitMap_LookUpOrCreate(t, 6, "outSet")

\* out.Predefine(1); ... defaultOutput = &out;
GetUnitMap_PredefineOut(t) ==
  /\ gpc[t] = "outSet"
  /\ maps' = [maps EXCEPT ![gunit[t][1]].units[gunit[t][2]] =
                Predefined(@, 1, FALSE, TRUE)]
  /\ defaultOutput' = gunit[t]
  /\ gpc' = [gpc EXCEPT ![t] = "in"]
  /\ UNCHANGED <<unitMapPtr, gunit, created, gret>>
  /\ UNCHANGED notInit

\* ExternalFileUnit &in{ExternalFileUnit::LookUpOrCreate(5, terminator)};
GetUnitMap_In(t) ==
  /\ gpc[t] = "in"
  /\ GetUnitMap_LookUpOrCreate(t, 5, "inSet")

\* in.Predefine(0); in.set_mayRead(true); ...
GetUnitMap_PredefineIn(t) ==
  /\ gpc[t] = "inSet"
  /\ maps' = [maps EXCEPT ![gunit[t][1]].units[gunit[t][2]] =
                Predefined(@, 0, TRUE, FALSE)]
  /\ gpc' = [gpc EXCEPT ![t] = "return"]
  /\ UNCHANGED <<unitMapPtr, defaultOutput, gunit, created, gret>>
  /\ UNCHANGED notInit

\* return *unitMap_;
GetUnitMap_Return(t) ==
  /\ gpc[t] = "return"
  /\ unitMapPtr # 0
  /\ gret' = [gret EXCEPT ![t] = unitMapPtr]
  /\ gpc' = [gpc EXCEPT ![t] = "idle"]
  /\ gunit' = [gunit EXCEPT ![t] = <<0, 0>>]
  /\ UNCHANGED <<unitMapPtr, defaultOutput, maps, created>>
  /\ UNCHANGED notInit

\* ExternalFileUnit::CloseAll, taken while no thread is inside GetUnitMap:
\* every unit of the current map is closed and destroyed, the map is freed
\* and unitMap_ nullified.  No thread holds a usable map afterwards.
GetUnitMap_CloseAll(t) ==
  /\ \A u \in Threads : gpc[u] = "idle"
  /\ gret[t] # 0
  /\ unitMapPtr # 0
  /\ defaultOutput' = <<0, 0>>
  /\ maps' = [maps EXCEPT ![unitMapPtr] = [units |-> <<>>, freed |-> TRUE]]
  /\ unitMapPtr' = 0
  /\ gret' = [u \in Threads |-> 0]
  /\ created' = [u \in Threads |-> FALSE]
  /\ UNCHANGED <<gpc, gunit>>
  /\ UNCHANGED notInit

InitNext ==
  \E t \in Threads :
    \/ GetUnitMap_Test(t)
    \/ GetUnitMap_New(t)
    \/ GetUnitMap_Out(t)
    \/ GetUnitMap_PredefineOut(t)
    \/ GetUnitMap_In(t)
    \/ GetUnitMap_PredefineIn(t)
    \/ GetUnitMap_Return(t)
    \/ GetUnitMap_CloseAll(t)

(***************************************************************************)
(* ExternalFileUnit::OpenUnit                                              *)
(***************************************************************************)

\* newPath.get() == nullptr / path() == nullptr
NullPath == <<0>>

\* File names, as byte sequences: an empty one, two that differ in a byte,
\* one that is a proper prefix of another.
Paths == {<<>>, <<97>>, <<98>>, <<97, 98>>}

OpenStatuses == {"Old", "New", "Unknown"}

\* std::memcmp(a, b, len) == 0
MemEqual(a, b, len) == \A i \in 1..len : a[i] = b[i]

Positions == {"AsIs", "Rewind", "Append"}

NoArgs == [status |-> "none", position |-> "none", newPath |-> NullPath]

OpenInit ==
  /\ isOpen = FALSE
  /\ path = NullPath
  /\ effects = <<>>
  /\ openArgs = NoArgs

OpenUnit_NoPathCheck ==
  \E status \in OpenStatuses, position \in Positions,
     newPath \in Paths \cup {NullPath}, opened \in BOOLEAN :
    /\ openArgs' = [status |-> status, position |-> position, newPath |-> newPath]
    /\ IF isOpen /\ status = "Old"
         THEN /\ effects' = <<>>
              /\ UNCHANGED <<isOpen, path>>
         ELSE /\ effects' = (IF isOpen THEN <<"Flush", "Close(Keep)">> ELSE <<>>)
                              \o <<"set_path", "Open">>
              /\ path' = newPath
              /\ isOpen' = opened
    /\ UNCHANGED notOpen

\* ExternalFileUnit::OpenUnit(status, position, newPath, newPathLength,
\* handler).  Open may fail: the unit is open afterwards or not.
OpenUnit ==
  \E status \in OpenStatuses, position \in Positions,
     newPath \in Paths \cup {NullPath}, opened \in BOOLEAN :
    /\ openArgs' = [status |-> status, position |-> position, newPath |-> newPath]
    /\ IF /\ isOpen
          /\ status = "Old"
          /\ \/ newPath = NullPath
             \/ /\ path # NullPath
                /\ Len(path) = Len(newPath)
                /\ MemEqual(path, newPath, Len(newPath))
         THEN \* newPath.reset(); return;
              /\ effects' = <<>>
              /\ UNCHANGED <<isOpen, path>>
         ELSE /\ effects' = (IF isOpen THEN <<"Flush", "Close(Keep)">> ELSE <<>>)
                              \o <<"set_path", "Open">>
              /\ path' = newPath
              /\ isOpen' = opened
    /\ UNCHANGED notOpen

OpenNext == OpenUnit

(***************************************************************************)
(* The record engine of one ExternalFileUnit                               *)
(*                                                                         *)
(* The file is the sequence of bytes the unit sees through its frame:      *)
(* WriteFrame(at, n) makes the bytes at..at+n-1 present, Frame() + i is    *)
(* the byte at + i, ReadFrame(at, n) tells how many of the n bytes from at *)
(* the file has.  A byte made present and never written is Unwritten.      *)
(***************************************************************************)

\* std::nullopt
None == -1

\* A byte of the frame that no memcpy/memset has set.
Unwritten == -2

\* sizeof(std::int32_t)
SizeofHeader == 4

\* Longest file the unit writes.
MaxFile == 2

\* Highest record number the unit gets to.
MaxRecordNumber == 3

\* RECL= of a connection with fixed-size records.
Recl == 2

\* The data of one Emit call by a statement.
Data == {<<65>>, <<66, 67>>}

Max_Left(a, b) == a

Max(a, b) == IF a >= b THEN a ELSE b
Min(a, b) == IF a <= b THEN a ELSE b

\* FileFrame::ReadFrame(at, bytes): how many of the bytes asked for are there.
ReadFrame(f, at, bytes) == Max(0, Min(bytes, Len(f) - at))

\* FileFrame::WriteFrame(at, bytes): the frame covers at..at+bytes-1.
WriteFrame(f, at, bytes) ==
  IF Len(f) >= at + bytes THEN f
  ELSE f \o [i \in 1..(at + bytes - Len(f)) |-> Unwritten]

\* std::memcpy(frame + at, data, Len(data)) on a frame that covers it.
Memcpy(f, at, data) ==
  [i \in 1..Len(f) |->
     IF i > at /\ i <= at + Len(data) THEN data[i - at] ELSE f[i]]

\* std::memset(frame + at, c, count)
Memset(f, at, c, count) ==
  [i \in 1..Len(f) |-> IF i > at /\ i <= at + count THEN c ELSE f[i]]

\* The bytes at..at+count-1 of the file.
Bytes(f, at, count) == SubSeq(f, at + 1, at + count)

\* A std::int32_t as its four bytes in memory (little-endian, two's
\* complement), and back.
Int32Bytes(v) ==
  <<v % 256, (v \div 256) % 256, (v \div 65536) % 256, (v \div 16777216) % 256>>

Int32At(f, at) ==
  LET b(i) == f[at + i]
      top == IF b(4) >= 128 THEN b(4) - 256 ELSE b(4)
  IN b(1) + 256 * b(2) + 65536 * b(3) + 16777216 * top

\* An unformatted sequential record on disk: length, payload, length.
Framed(head, body, foot) == Int32Bytes(head) \o body \o Int32Bytes(foot)

\* Files found on disk when a unit is connected for input: an empty one,
\* and files of the form the connection is for.
InputFiles(unformatted) ==
  IF unformatted
    THEN { <<>>,
           \* two well-formed unformatted records, of 1 and 2 bytes
           Framed(1, <<7>>, 1) \o Framed(2, <<8, 9>>, 2),
           \* the second record's footer is damaged
           Framed(1, <<7>>, 1) \o Framed(2, <<8, 9>>, 3),
           \* the first record's footer is damaged
           Framed(1, <<7>>, 2) \o Framed(2, <<8, 9>>, 2),
           \* the second record is cut short
           Framed(1, <<7>>, 1) \o Int32Bytes(2) \o <<8>>,
           \* a header is cut short
           Framed(1, <<7>>, 1) \o <<2, 0>> }
    ELSE { <<>>,
           \* "a\nbc\n"
           <<97, 10, 98, 99, 10>>,
           \* "a\r\nb\n"
           <<97, 13, 10, 98, 10>> }

NoSignal == [cond |-> "none", record |-> 0, offset |-> 0, load |-> 0]
NoResult == [op |-> "none", value |-> "none"]

\* A unit as constructed, connected to an empty file.
UnitInit ==
  /\ isReading_ = FALSE
  /\ isUnformatted = FALSE
  /\ access = "Sequential"
  /\ recordLength = None
  /\ positionInRecord = 0
  /\ furthestPositionInRecord = 0
  /\ leftTabLimit = None
  /\ currentRecordNumber = 1
  /\ endfileRecordNumber = None
  /\ offsetInFile = 0
  /\ nonAdvancing = FALSE
  /\ file = <<>>
  /\ recoverable = TRUE
  /\ crashed = FALSE
  /\ signalled = NoSignal
  /\ result = NoResult
  /\ written = <<>>
  /\ readBack = <<>>
  /\ loads = 0
  /\ roundTrip = FALSE

\* What the handler is told: the condition, and for the errors of
\* unformatted input the record number and file offset put in the message.
\* A handler with no IOSTAT=, ERR=, END=, EOR= ends the process on any of
\* them (recoverable is FALSE); one with all of them records it and returns.
Signal(cond) == [cond |-> cond, record |-> 0, offset |-> 0, load |-> 0]

\* The program connects a unit and begins a statement on it: a fresh
\* ExternalFileUnit, form, access and RECL= as OPEN sets them, the direction
\* of the statement.  For input the file is one found on disk, or (after
\* CLOSE and a new OPEN of the same form) the one the unit has written; for
\* output it is a new file.
Connect ==
  /\ ~crashed
  /\ result = NoResult \/ (~isReading_ /\ result.op = "AdvanceRecord")
  /\ \E reading, unformatted, rec \in BOOLEAN, acc \in {"Sequential", "Direct"},
        recl \in {None, Recl} :
       /\ isReading_' = reading
       /\ isUnformatted' = unformatted
       /\ access' = acc
       /\ recordLength' = recl
       /\ recoverable' = rec
       /\ acc = "Direct" => recl # None
       /\ result # NoResult
            => /\ reading /\ unformatted = isUnformatted
               /\ acc = access /\ recl = recordLength
       /\ IF reading
            THEN /\ IF result = NoResult
                      THEN file' \in InputFiles(unformatted) /\ roundTrip' = FALSE
                      ELSE file' = file /\ roundTrip' = TRUE
                 /\ UNCHANGED written
                 /\ nonAdvancing' \in (IF unformatted \/ result # NoResult
                                         THEN {FALSE} ELSE BOOLEAN)
                 /\ endfileRecordNumber' \in
                      (IF acc = "Sequential" /\ result = NoResult
                         THEN {None, 2, 3} ELSE {None})
            ELSE /\ file' = <<>>
                 /\ roundTrip' = FALSE
                 /\ written' = <<>>
                 /\ nonAdvancing' = FALSE
                 /\ endfileRecordNumber' = None
  /\ positionInRecord' = 0
  /\ furthestPositionInRecord' = 0
  /\ leftTabLimit' = None
  /\ currentRecordNumber' = 1
  /\ offsetInFile' = 0
  /\ crashed' = FALSE
  /\ signalled' = NoSignal
  /\ result' = [op |-> "Connect", value |-> "none"]
  /\ readBack' = <<>>
  /\ loads' = 0
  /\ UNCHANGED notUnit

RecordWriteOverrun_Never(furthestAfter) == FALSE

\* furthestAfter > recordLength.value_or(furthestAfter)
RecordWriteOverrun(furthestAfter) ==
  furthestAfter > (IF recordLength = None THEN furthestAfter ELSE recordLength)

\* ExternalFileUnit::Emit(data, bytes, handler), on a unit in either
\* direction: Emit does not look at isReading_.  The result keeps the data
\* the call was given.
Emit ==
  /\ ~crashed
  /\ \E data \in Data :
       LET bytes == Len(data)
           furthestAfter == Max(furthestPositionInRecord, positionInRecord + bytes)
       IN IF RecordWriteOverrun(furthestAfter)
            THEN /\ signalled' = Signal("RecordWriteOverrun")
                 /\ crashed' = ~recoverable
                 /\ result' = [op |-> "Emit", arg |-> data,
                               value |-> IF recoverable THEN "false" ELSE "none"]
                 /\ UNCHANGED <<file, positionInRecord, furthestPositionInRecord>>
            ELSE /\ offsetInFile + furthestAfter <= MaxFile
                 /\ file' = Memcpy(WriteFrame(file, offsetInFile, furthestAfter),
                                   offsetInFile + positionInRecord, data)
                 /\ positionInRecord' = positionInRecord + bytes
                 /\ furthestPositionInRecord' = furthestAfter
                 /\ signalled' = NoSignal
                 /\ result' = [op |-> "Emit", arg |-> data, value |-> "true"]
                 /\ UNCHANGED crashed
  /\ UNCHANGED <<isReading_, isUnformatted, access, recordLength, leftTabLimit,
                 currentRecordNumber, endfileRecordNumber, offsetInFile,
                 nonAdvancing, recoverable, written, readBack, loads, roundTrip>>
  /\ UNCHANGED notUnit

\* ExternalFileUnit::NextChar(handler), on a unit in either direction: it
\* is NextChar that turns the unit to reading.
NextChar ==
  /\ ~crashed
  /\ isReading_' = TRUE
  /\ IF isUnformatted
       THEN \* handler.Crash("NextChar() called for unformatted input")
            /\ crashed' = TRUE
            /\ signalled' = Signal("Crash")
            /\ result' = [op |-> "NextChar", value |-> "none"]
       ELSE IF recordLength # None /\ positionInRecord >= recordLength
         THEN /\ signalled' = Signal(IF nonAdvancing THEN "Eor"
                                     ELSE "RecordReadOverrun")
              /\ crashed' = ~recoverable
              /\ result' = [op |-> "NextChar",
                            value |-> IF recoverable THEN "nullopt" ELSE "none"]
         ELSE LET chunk == IF recordLength # None
                             THEN recordLength - positionInRecord ELSE 256
                  at == offsetInFile + positionInRecord
                  got == ReadFrame(file, at, chunk)
              IN /\ signalled' = NoSignal
                 /\ crashed' = FALSE
                 /\ result' = [op |-> "NextChar",
                               value |-> IF got <= 0 THEN "nullopt"
                                         ELSE ToString(file[at + 1])]
  /\ UNCHANGED <<isUnformatted, access, recordLength, positionInRecord,
                 furthestPositionInRecord, leftTabLimit, currentRecordNumber,
                 endfileRecordNumber, offsetInFile, nonAdvancing, file,
                 recoverable, written, readBack, loads, roundTrip>>
  /\ UNCHANGED notUnit

\* ExternalFileUnit::SetLeftTabLimit()
SetLeftTabLimit ==
  /\ ~crashed
  /\ leftTabLimit' = furthestPositionInRecord
  /\ positionInRecord' = furthestPositionInRecord
  /\ signalled' = NoSignal
  /\ result' = [op |-> "SetLeftTabLimit", value |-> "none"]
  /\ UNCHANGED <<isReading_, isUnformatted, access, recordLength,
                 furthestPositionInRecord, currentRecordNumber,
                 endfileRecordNumber, offsetInFile, nonAdvancing, file,
                 recoverable, crashed, written, readBack, loads, roundTrip>>
  /\ UNCHANGED notUnit

\* The members AdvanceRecord and the functions it calls work on, and the
\* history kept beside them.
This ==
  [recordLength |-> recordLength, currentRecordNumber |-> currentRecordNumber,
   offsetInFile |-> offsetInFile, positionInRecord |-> positionInRecord,
   furthestPositionInRecord |-> furthestPositionInRecord, file |-> file,
   signalled |-> NoSignal, crashed |-> FALSE, readBack |-> readBack,
   loads |-> loads]

\* handler.SignalEnd() / handler.SignalError(...) inside a function of unit u.
SignalOn(u, sig) == [u EXCEPT !.signalled = sig, !.crashed = ~recoverable]

SignalCorrupt_Ignored(u, cond) == u

\* handler.SignalError(error, currentRecordNumber, offsetInFile, header, footer)
SignalCorrupt(u, cond) ==
  SignalOn(u, [cond |-> cond, record |-> u.currentRecordNumber,
               offset |-> u.offsetInFile, load |-> u.loads])

\* ExternalFileUnit::NextSequentialUnformattedInputRecord(handler)
NextSequentialUnformattedInputRecord(u0) ==
  LET u == [u0 EXCEPT !.loads = @ + 1]
      notFirst == u.recordLength # None
      u1 == IF notFirst THEN [u EXCEPT !.currentRecordNumber = @ + 1] ELSE u
  IN IF notFirst /\ endfileRecordNumber # None
          /\ u1.currentRecordNumber >= endfileRecordNumber
       THEN SignalOn(u1, Signal("End"))
       ELSE
         LET retain == IF notFirst THEN SizeofHeader ELSE 0
             u2 == IF notFirst
                     THEN [u1 EXCEPT !.offsetInFile =
                                       @ + u.recordLength + 2 * SizeofHeader]
                     ELSE u1
             at == u2.offsetInFile
             need == retain + SizeofHeader
             got == ReadFrame(u2.file, at - retain, need)
             header == Int32At(u2.file, at)
             need2 == retain + header + 2 * SizeofHeader
             got2 == ReadFrame(u2.file, at - retain, need2 + SizeofHeader)
             footer == Int32At(u2.file, at + SizeofHeader + header)
             u3 == IF got < need
                     THEN IF got = retain
                            THEN SignalOn(u2, Signal("End"))
                            ELSE SignalCorrupt(u2, "truncated record header")
                     ELSE IF got2 < need2
                       THEN SignalCorrupt(u2, "hit EOF reading record")
                       ELSE IF footer # header
                         THEN SignalCorrupt(u2, "header does not match footer")
                         ELSE [u2 EXCEPT
                                 !.recordLength = header,
                                 !.readBack = Append(@, Bytes(u2.file,
                                                at + SizeofHeader, header))]
         IN IF u3.crashed THEN u3
            ELSE [u3 EXCEPT !.positionInRecord = SizeofHeader]

\* The first '\n' among the got bytes from..got-1 of the frame at `at`, or
\* None.
NewlineIn(f, at, from, got) ==
  LET hits == {i \in from..(got - 1) : f[at + i + 1] = 10}
  IN IF hits = {} THEN None ELSE CHOOSE i \in hits : \A h \in hits : i <= h

\* ExternalFileUnit::NextSequentialFormattedInputRecord(handler).  memchr
\* looks at chunk bytes from frame + length though ReadFrame got fewer: what
\* lies behind the bytes read is stale buffer memory, which holds a '\n'
\* right there (stale) or does not.
NextSequentialFormattedInputRecord(u0, stale) ==
  LET u == [u0 EXCEPT !.loads = @ + 1]
      notFirst == u.recordLength # None
      u1 == IF notFirst THEN [u EXCEPT !.currentRecordNumber = @ + 1] ELSE u
  IN IF notFirst /\ endfileRecordNumber # None
          /\ u1.currentRecordNumber >= endfileRecordNumber
       THEN SignalOn(u1, Signal("End"))
       ELSE
         LET cr == /\ notFirst
                   /\ u1.offsetInFile + u1.recordLength < Len(u1.file)
                   /\ u1.file[u1.offsetInFile + u1.recordLength + 1] = 13
             rl == IF cr THEN u1.recordLength + 1 ELSE u1.recordLength
             u2 == IF notFirst
                     THEN [u1 EXCEPT !.recordLength = rl,
                                     !.offsetInFile = @ + rl + 1]
                     ELSE u1
             at == u2.offsetInFile
             got == ReadFrame(u2.file, at, 256)
             nl == NewlineIn(u2.file, at, 0, got)
         IN IF got <= 0 THEN SignalOn(u2, Signal("End"))
            ELSE IF nl # None
              THEN \* recordLength = nl - (frame + length) + 1, length being 0;
                   \* then --*recordLength if frame[*recordLength - 1] is '\r'
                   LET len == nl + 1
                   IN [u2 EXCEPT !.recordLength =
                         IF len > 0 /\ u2.file[at + len] = 13 THEN len - 1
                         ELSE len]
            ELSE IF stale THEN [u2 EXCEPT !.recordLength = got + 1]
            ELSE \* length += got; the next ReadFrame gets no more
                 SignalOn(u2, Signal("End"))

\* Emit("\n", 1, handler) as AdvanceRecord calls it, on a unit with no
\* recordLength: it cannot overrun.
EmitNewline(u) ==
  LET furthestAfter == Max(u.furthestPositionInRecord, u.positionInRecord + 1)
  IN [u EXCEPT !.file = Memcpy(WriteFrame(@, u.offsetInFile, furthestAfter),
                               u.offsetInFile + u.positionInRecord, <<10>>),
               !.positionInRecord = @ + 1,
               !.furthestPositionInRecord = furthestAfter]

\* The body of AdvanceRecord up to ++currentRecordNumber.
AdvanceRecordBody(u, stale) ==
  IF isReading_
    THEN IF access = "Sequential"
           THEN IF isUnformatted
                  THEN NextSequentialUnformattedInputRecord(u)
                  ELSE NextSequentialFormattedInputRecord(u, stale)
           ELSE u
    ELSE IF ~isUnformatted
      THEN IF u.recordLength # None
             THEN IF u.furthestPositionInRecord < u.recordLength
                    THEN [u EXCEPT !.file =
                            Memset(WriteFrame(@, u.offsetInFile, u.recordLength),
                                   u.offsetInFile + u.furthestPositionInRecord, 32,
                                   u.recordLength - u.furthestPositionInRecord)]
                    ELSE u
             ELSE LET u1 == [u EXCEPT !.positionInRecord =
                                        u.furthestPositionInRecord + 1]
                      u2 == EmitNewline(u1)
                  IN [u2 EXCEPT !.offsetInFile = @ + u2.furthestPositionInRecord]
      ELSE u

\* ExternalFileUnit::AdvanceRecord(handler)
AdvanceRecord ==
  /\ ~crashed
  /\ currentRecordNumber < MaxRecordNumber
  /\ \E stale \in BOOLEAN :
       LET u == AdvanceRecordBody(This, stale)
       IN /\ recordLength' = u.recordLength
          /\ offsetInFile' = u.offsetInFile
          /\ file' = u.file
          /\ signalled' = u.signalled
          /\ crashed' = u.crashed
          /\ readBack' = u.readBack
          /\ loads' = u.loads
          /\ IF u.crashed
               THEN /\ currentRecordNumber' = u.currentRecordNumber
                    /\ positionInRecord' = u.positionInRecord
                    /\ furthestPositionInRecord' = u.furthestPositionInRecord
                    /\ UNCHANGED leftTabLimit
                    /\ result' = [op |-> "AdvanceRecord", value |-> "none"]
               ELSE /\ currentRecordNumber' = u.currentRecordNumber + 1
                    /\ positionInRecord' = 0
                    /\ furthestPositionInRecord' = 0
                    /\ leftTabLimit' = None
                    /\ result' = [op |-> "AdvanceRecord", value |-> "true"]
  /\ written' = IF isReading_ \/ written # <<>> THEN written
                ELSE Append(written, Bytes(file, offsetInFile,
                                           furthestPositionInRecord))
  /\ UNCHANGED <<isReading_, isUnformatted, access, endfileRecordNumber,
                 nonAdvancing, recoverable, roundTrip>>
  /\ UNCHANGED notUnit

UnitNext ==
  \/ Connect
  \/ Emit
  \/ NextChar
  \/ SetLeftTabLimit
  \/ AdvanceRecord

(***************************************************************************)
(* InternalDescriptorUnit<isInput>                                         *)
(*                                                                         *)
(* The unit overlays a character array: elements[i] is the i-th element,   *)
(* a sequence of recordLength bytes, and at_ is the subscript of the       *)
(* current one.                                                            *)
(***************************************************************************)

\* Most elements of the array a unit is built over.
MaxElements == 2

\* Descriptor::ElementBytes(): the length of each element.
ElementBytes == 2

\* What an element holds before the statement: text, or what was there.
Contents == {<<120, 120>>, <<49, 50>>}

\* The data of one Emit call on an internal unit; it may be empty.
InternalData == Data \cup {<<>>}

NoOut == [op |-> "none", arg |-> <<>>, value |-> "none", cond |-> "none"]

\* No internal unit has been constructed.
InternalInit ==
  /\ internal = [isInput |-> FALSE, recordLength |-> None,
                 endfileRecordNumber |-> None, currentRecordNumber |-> 1,
                 positionInRecord |-> 0, furthestPositionInRecord |-> 0,
                 nonAdvancing |-> FALSE, pad |-> FALSE, at_ |-> 1,
                 elements |-> <<>>, recoverable |-> TRUE, crashed |-> FALSE]
  /\ internalOut = NoOut

\* recordLength.value_or(0), endfileRecordNumber.value_or(0)
ValueOr(opt, default) == IF opt = None THEN default ELSE opt

\* Descriptor::IncrementSubscripts(at_): the next element, the first one
\* again after the last.
IncrementSubscripts(u) ==
  [u EXCEPT !.at_ = IF @ >= Len(u.elements) THEN 1 ELSE @ + 1]

\* std::fill_n(record + from, count, ' ') on the current element; a count
\* that is not positive fills nothing.
FillBlanks(u, from, count) ==
  [u EXCEPT !.elements[u.at_] =
     [i \in 1..Len(@) |-> IF i > from /\ i <= from + count THEN 32 ELSE @[i]]]

\* InternalDescriptorUnit(const Descriptor &that, terminator), and with one
\* element InternalDescriptorUnit(Scalar, length); the statement's handler and
\* modes beside it.
Internal_Construct ==
  /\ internalOut = NoOut
  /\ \E isInput, rec, nadv, pad \in BOOLEAN, count \in 1..MaxElements :
     \E elements \in [1..count -> Contents] :
       /\ ~isInput => (~nadv /\ ~pad)
       /\ internal' = [isInput |-> isInput, recordLength |-> ElementBytes,
                       endfileRecordNumber |-> count + 1,
                       currentRecordNumber |-> 1, positionInRecord |-> 0,
                       furthestPositionInRecord |-> 0, nonAdvancing |-> nadv,
                       pad |-> pad, at_ |-> 1, elements |-> elements,
                       recoverable |-> rec, crashed |-> FALSE]
  /\ internalOut' = [NoOut EXCEPT !.op = "Construct"]
  /\ UNCHANGED notInternal

\* A statement is running on the unit: it has been constructed, its
\* statement has not ended and the process is alive.
InternalLive ==
  /\ internalOut.op \notin {"none", "EndIoStatement"}
  /\ ~internal.crashed

\* handler.Crash(...), and handler.SignalError/SignalEnd on a handler with no
\* IOSTAT=, ERR=, END=: the process ends inside the call.
Ended(u) == [u EXCEPT !.crashed = TRUE]

Out(op, arg, value, cond) ==
  [op |-> op, arg |-> arg, value |-> value, cond |-> cond]

\* The outcome of Emit; extent is the index in the current record behind the
\* last byte its memcpy set (0 when it set none).
EmitOut(data, value, cond, extent) ==
  [op |-> "Emit", arg |-> data, value |-> value, cond |-> cond,
   extent |-> extent]

InternalEmitBody_NoCheck(u, data) ==
  LET bytes == Len(data)
      furthestAfter == Max(u.furthestPositionInRecord, u.positionInRecord + bytes)
      u1 == [u EXCEPT !.elements[u.at_] =
               [i \in 1..Len(@) |->
                  IF i > u.positionInRecord /\ i <= u.positionInRecord + bytes
                    THEN data[i - u.positionInRecord] ELSE @[i]]]
  IN <<[u1 EXCEPT !.positionInRecord = @ + bytes,
                  !.furthestPositionInRecord = furthestAfter],
       EmitOut(data, "true", "none", u.positionInRecord + bytes)>>

\* InternalDescriptorUnit<false>::Emit(data, bytes, handler) on an output
\* unit: the unit afterwards and what the call returned and signalled.
InternalEmitBody(u, data) ==
  LET bytes == Len(data)
  IN IF bytes <= 0 THEN <<u, EmitOut(data, "true", "none", 0)>>
     ELSE IF u.currentRecordNumber >= ValueOr(u.endfileRecordNumber, 0)
       THEN IF u.recoverable
              THEN <<u, EmitOut(data, "false", "InternalWriteOverrun", 0)>>
              ELSE <<Ended(u), EmitOut(data, "none", "InternalWriteOverrun", 0)>>
       ELSE
         LET furthestAfter == Max(u.furthestPositionInRecord,
                                  u.positionInRecord + bytes)
             overrun == furthestAfter > ValueOr(u.recordLength, 0)
         IN IF overrun /\ ~u.recoverable
              THEN <<Ended(u), EmitOut(data, "none", "RecordWriteOverrun", 0)>>
              ELSE
                LET after == IF overrun THEN ValueOr(u.recordLength, 0)
                             ELSE furthestAfter
                    count == IF overrun
                               THEN Max(0, after - u.positionInRecord)
                               ELSE bytes
                    u1 == IF ~overrun
                             /\ u.positionInRecord > u.furthestPositionInRecord
                            THEN FillBlanks(u, u.furthestPositionInRecord,
                                   u.positionInRecord - u.furthestPositionInRecord)
                            ELSE u
                    u2 == [u1 EXCEPT !.elements[u.at_] =
                             [i \in 1..Len(@) |->
                                IF /\ i > u.positionInRecord
                                   /\ i <= u.positionInRecord + count
                                  THEN data[i - u.positionInRecord] ELSE @[i]]]
                IN <<[u2 EXCEPT !.positionInRecord = @ + count,
                                !.furthestPositionInRecord = after],
                     EmitOut(data, IF overrun THEN "false" ELSE "true",
                             IF overrun THEN "RecordWriteOverrun" ELSE "none",
                             IF count > 0 THEN u.positionInRecord + count
                             ELSE 0)>>

\* InternalDescriptorUnit<isInput>::Emit(data, bytes, handler)
Internal_Emit ==
  /\ InternalLive
  /\ \E data \in InternalData :
       IF internal.isInput
         THEN \* handler.Crash("... called for an input statement")
              /\ internal' = Ended(internal)
              /\ internalOut' = EmitOut(data, "none", "Crash", 0)
         ELSE LET r == InternalEmitBody(internal, data)
              IN /\ internal' = r[1]
                 /\ internalOut' = r[2]
  /\ UNCHANGED notInternal

\* InternalDescriptorUnit<isInput>::NextChar(handler).  It reads
\* record[positionInRecord] whenever positionInRecord <= recordLength: at
\* positionInRecord = recordLength that is the byte behind the element.
Internal_NextChar ==
  /\ InternalLive
  /\ LET u == internal
     IN IF ~u.isInput
          THEN /\ internal' = Ended(u)
               /\ internalOut' = Out("NextChar", <<>>, "none", "Crash")
          ELSE IF /\ u.endfileRecordNumber # None
                  /\ u.currentRecordNumber >= u.endfileRecordNumber
            THEN /\ internal' = IF u.recoverable THEN u ELSE Ended(u)
                 /\ internalOut' =
                      Out("NextChar", <<>>,
                          IF u.recoverable THEN "nullopt" ELSE "none", "End")
          ELSE IF u.positionInRecord
                    > ValueOr(u.recordLength, u.positionInRecord)
            THEN /\ internal' = IF u.nonAdvancing /\ ~u.recoverable
                                  THEN Ended(u) ELSE u
                 /\ internalOut' =
                      Out("NextChar", <<>>,
                          IF u.nonAdvancing /\ ~u.recoverable THEN "none"
                          ELSE IF u.pad THEN "32" ELSE "nullopt",
                          IF u.nonAdvancing THEN "Eor" ELSE "none")
          ELSE /\ internal' = u
               /\ \E behind \in {0, 32} :
                    internalOut' =
                      Out("NextChar", <<>>,
                          IF u.positionInRecord < Len(u.elements[u.at_])
                            THEN ToString(u.elements[u.at_][u.positionInRecord + 1])
                            ELSE ToString(behind),
                          "none")
  /\ UNCHANGED notInternal

\* HandleRelativePosition(1), by which the statement that took a character
\* from NextChar steps to the next one.
Internal_HandleRelativePosition ==
  /\ InternalLive
  /\ internal.isInput
  /\ internalOut.op = "NextChar"
  /\ internalOut.value \notin {"none", "nullopt"}
  /\ internal.positionInRecord <= ElementBytes
  /\ internal' = [internal EXCEPT !.positionInRecord = @ + 1]
  /\ internalOut' = Out("HandleRelativePosition", <<>>, "none", "none")
  /\ UNCHANGED notInternal

\* InternalDescriptorUnit<isInput>::AdvanceRecord(handler)
Internal_AdvanceRecord ==
  /\ InternalLive
  /\ LET u == internal
     IN IF u.currentRecordNumber >= ValueOr(u.endfileRecordNumber, 0)
          THEN /\ internal' = IF u.recoverable THEN u ELSE Ended(u)
               /\ internalOut' =
                    Out("AdvanceRecord", <<>>,
                        IF u.recoverable THEN "false" ELSE "none", "End")
          ELSE LET u1 == IF /\ ~u.isInput
                            /\ u.furthestPositionInRecord
                                 < ValueOr(u.recordLength,
                                           u.furthestPositionInRecord)
                           THEN FillBlanks(u, u.furthestPositionInRecord,
                                  u.recordLength - u.furthestPositionInRecord)
                           ELSE u
                   u2 == [u1 EXCEPT !.currentRecordNumber = @ + 1]
                   u3 == IncrementSubscripts(u2)
               IN /\ internal' = [u3 EXCEPT !.positionInRecord = 0,
                                            !.furthestPositionInRecord = 0]
                  /\ internalOut' = Out("AdvanceRecord", <<>>, "true", "none")
  /\ UNCHANGED notInternal

BlankFill_CurrentOnly(u) ==
  IF u.currentRecordNumber < ValueOr(u.endfileRecordNumber, 0)
    THEN [FillBlanks(u, u.furthestPositionInRecord,
                     ValueOr(u.recordLength, 0) - u.furthestPositionInRecord)
            EXCEPT !.furthestPositionInRecord = 0,
                   !.currentRecordNumber = u.endfileRecordNumber]
    ELSE u

\* The blank-fill loop of EndIoStatement.
RECURSIVE BlankFill(_)
BlankFill(u) ==
  IF u.currentRecordNumber < ValueOr(u.endfileRecordNumber, 0)
    THEN LET u1 == FillBlanks(u, u.furthestPositionInRecord,
                     ValueOr(u.recordLength, 0) - u.furthestPositionInRecord)
             u2 == [u1 EXCEPT !.furthestPositionInRecord = 0,
                              !.currentRecordNumber = @ + 1]
         IN BlankFill(IncrementSubscripts(u2))
    ELSE u

\* InternalDescriptorUnit<isInput>::EndIoStatement()
Internal_EndIoStatement ==
  /\ InternalLive
  /\ internal' = IF internal.isInput THEN internal ELSE BlankFill(internal)
  /\ internalOut' = Out("EndIoStatement", <<>>, "none", "none")
  /\ UNCHANGED notInternal

InternalNext ==
  \/ Internal_Construct
  \/ Internal_Emit
  \/ Internal_NextChar
  \/ Internal_HandleRelativePosition
  \/ Internal_AdvanceRecord
  \/ Internal_EndIoStatement

(***************************************************************************)
(* Numeric input editing (numeric-input.cpp)                               *)
(*                                                                         *)
(* A field is the sequence of characters io.NextInField hands out, one per *)
(* call, before it returns nothing: the width characters of a fixed-width  *)
(* field, or the characters up to the separator in list-directed input.    *)
(* Characters are their codes.                                             *)
(***************************************************************************)

\* The destination has not been stored into.
Unstored == -1

NoEdit == [ok |-> FALSE, cond |-> "not called", stored |-> Unstored]

NumInit ==
  /\ numIn = [descriptor |-> "none"]
  /\ numOut = NoEdit

\* 2^k
RECURSIVE Pow(_, _)
Pow(b, k) == IF k = 0 THEN 1 ELSE b * Pow(b, k - 1)

\* io.NextInField(remaining): the character at index i of the field, or
\* std::nullopt (None) behind its end.
NextInField(field, i) == IF i <= Len(field) THEN field[i] ELSE None

\* while (next && *next == ' ') next = io.NextInField(remaining): the index
\* of the first character from i on that is not a blank.
RECURSIVE SkipSpaces(_, _)
SkipSpaces(field, i) ==
  IF NextInField(field, i) = 32 THEN SkipSpaces(field, i + 1) ELSE i

MemcpyLow_Whole(value, bytes) == value

\* std::memcpy(n, &value, bytes) from a 128-bit unsigned value on a
\* little-endian machine: the low bytes of value, as an unsigned number.
MemcpyLow(value, bytes) == value % Pow(256, bytes)

\* The digit EditBOZInput takes character ch for in the given base, or None
\* where it signals the bad character.
BOZDigit(ch, base) ==
  IF ch >= 48 /\ ch <= 49 THEN ch - 48
  ELSE IF base >= 8 /\ ch >= 50 /\ ch <= 55 THEN ch - 48
  ELSE IF base >= 10 /\ ch >= 56 /\ ch <= 57 THEN ch - 48
  ELSE IF base = 16 /\ ch >= 65 /\ ch <= 90 THEN ch + 10 - 65
  ELSE IF base = 16 /\ ch >= 97 /\ ch <= 122 THEN ch + 10 - 97
  ELSE None

\* The for loop of EditBOZInput from index i on with the value so far.
RECURSIVE BOZLoop(_, _, _, _, _)
BOZLoop(field, i, base, value, bytes) ==
  LET ch == NextInField(field, i)
  IN IF ch = None
       THEN [ok |-> TRUE, cond |-> "none", stored |-> MemcpyLow(value, bytes)]
     ELSE IF ch = 32 THEN BOZLoop(field, i + 1, base, value, bytes)
     ELSE IF BOZDigit(ch, base) = None
       THEN [ok |-> FALSE, cond |-> "Bad character in B/O/Z input field",
             stored |-> Unstored]
     ELSE BOZLoop(field, i + 1, base, value * base + BOZDigit(ch, base), bytes)

\* EditBOZInput(io, edit, n, base, totalBitSize)
EditBOZInput(e, base, totalBitSize) ==
  BOZLoop(e.field, SkipSpaces(e.field, 1), base, 0, totalBitSize \div 8)

\* ScanNumericPrefix(io, edit, next, remaining): whether there is a '-'
\* sign, and the index of the character `next` is left at.
ScanNumericPrefix(e) ==
  LET i == SkipSpaces(e.field, 1)
      ch == NextInField(e.field, i)
  IN [negative |-> ch = 45,
      next |-> IF ch = 45 \/ ch = 43 THEN i + 1 ELSE i]

\* edit.modes.editingFlags & blankZero, as the decimal loop tests it
IntegerBlank(e) == e.blankZero

\* The for loop of EditIntegerInput from index i on with the value so far.
RECURSIVE IntegerLoop(_, _, _, _)
IntegerLoop(e, i, value, negate) ==
  LET next == NextInField(e.field, i)
      ch == IF next = 32 /\ IntegerBlank(e) THEN 48 ELSE next
  IN IF next = None
       THEN [ok |-> TRUE, cond |-> "none",
             stored |-> MemcpyLow(IF negate THEN -value ELSE value, e.kind)]
     ELSE IF ch = 32 THEN IntegerLoop(e, i + 1, value, negate)
     ELSE IF ch >= 48 /\ ch <= 57
       THEN IntegerLoop(e, i + 1, value * 10 + (ch - 48), negate)
     ELSE [ok |-> FALSE, cond |-> "Bad character in INTEGER input field",
           stored |-> Unstored]

\* EditIntegerInput(io, edit, n, kind).  The accumulator is 128 bits wide and
\* starts at 0; no field of the lengths below makes it wrap.
EditIntegerInput(e) ==
  IF e.descriptor \in {"ListDirected", "G", "I"}
    THEN LET prefix == ScanNumericPrefix(e)
         IN IntegerLoop(e, prefix.next, 0, prefix.negative)
  ELSE IF e.descriptor = "B" THEN EditBOZInput(e, 2, e.kind * 8)
  ELSE IF e.descriptor = "O" THEN EditBOZInput(e, 8, e.kind * 8)
  ELSE IF e.descriptor = "Z" THEN EditBOZInput(e, 16, e.kind * 8)
  ELSE [ok |-> FALSE, cond |-> "IostatErrorInFormat", stored |-> Unstored]

(***************************************************************************)
(* Real input editing (numeric-input.cpp)                                  *)
(*                                                                         *)
(* ScanRealInput fills a buffer of bufferSize = maxDigits + 2 characters;   *)
(* the sign and the '.' always fit (maxDigits >= 1), the letters and the   *)
(* digits are copied while got < bufferSize.  What is stored is the        *)
(* decimal text handed to decimal::ConvertToBinary (the buffer and the     *)
(* exponent EditCommonRealInput appends to it as "e%d") and the Inexact    *)
(* flag EditCommonRealInput adds to the conversion's flags.                *)
(***************************************************************************)

\* The destination of a real edit has not been stored into.
NotConverted == [buffer |-> <<>>, exponent |-> 0]

IsLetter(ch) == (ch >= 97 /\ ch <= 122) \/ (ch >= 65 /\ ch <= 90)

IsDigit(ch) == ch >= 48 /\ ch <= 57

\* edit.modes.editingFlags & decimalComma ? ',' : '.'
Decimal(e) == IF e.decimalComma THEN 44 ELSE 46

\* The for loop over the letters of NaN or infinity from index i on:
\* the index `next` is left at and the letters in upper case.
RECURSIVE LetterLoop(_, _, _, _)
LetterLoop(field, i, buf, room) ==
  LET ch == NextInField(field, i)
  IN IF ch # None /\ IsLetter(ch)
       THEN LetterLoop(field, i + 1,
                       IF Len(buf) < room
                         THEN Append(buf, IF ch >= 97 THEN ch - 97 + 65 ELSE ch)
                         ELSE buf,
                       room)
       ELSE [next |-> i, buf |-> buf]

\* while (next && *next != ')') next = io.NextInField(remaining)
RECURSIVE SkipToParen(_, _)
SkipToParen(field, i) ==
  IF NextInField(field, i) \notin {None, 41} THEN SkipToParen(field, i + 1)
  ELSE i

\* The for loop over the digits of the value from index i on: the index
\* `next` is left at (behind the field where the loop ran out of
\* characters), the digits copied to the buffer, and decimalPoint.
RECURSIVE DigitLoop(_, _, _, _, _)
DigitLoop(e, i, buf, decimalPoint, room) ==
  LET next == NextInField(e.field, i)
      ch == IF next = 32 /\ e.blankZero THEN 48 ELSE next
  IN IF next = None
       THEN [next |-> i, buf |-> buf, decimalPoint |-> decimalPoint]
     ELSE IF ch = 32 THEN DigitLoop(e, i + 1, buf, decimalPoint, room)
     ELSE IF ch = 48 /\ buf = <<>>
       THEN DigitLoop(e, i + 1, buf, decimalPoint, room)
     ELSE IF IsDigit(ch)
       THEN DigitLoop(e, i + 1,
                      IF Len(buf) < room THEN Append(buf, ch) ELSE buf,
                      decimalPoint, room)
     ELSE IF ch = Decimal(e) /\ decimalPoint = None
       THEN DigitLoop(e, i + 1, buf, Len(buf), room)
     ELSE [next |-> i, buf |-> buf, decimalPoint |-> decimalPoint]

\* for (exponent = 0; next && digit; ...) exponent = 10 * exponent + digit
RECURSIVE ExponentLoop(_, _, _)
ExponentLoop(field, i, exponent) ==
  LET ch == NextInField(field, i)
  IN IF ch # None /\ IsDigit(ch)
       THEN ExponentLoop(field, i + 1, 10 * exponent + ch - 48)
       ELSE [next |-> i, exponent |-> exponent]

ScanExponent_Default(e, i) == [next |-> i, exponent |-> -e.scale]

\* Lines 192-213: the exponent letter, the blanks behind it, and the
\* exponent itself, which is -kP where the field has none.
ScanExponent(e, i) ==
  LET ch == NextInField(e.field, i)
      j == IF ch \in {101, 69, 100, 68, 113, 81}
             THEN SkipSpaces(e.field, i + 1)
             ELSE i
      sign == NextInField(e.field, j)
  IN IF sign # None /\ (sign = 45 \/ sign = 43 \/ IsDigit(sign))
       THEN LET scanned == ExponentLoop(e.field,
                              IF sign = 45 \/ sign = 43 THEN j + 1 ELSE j, 0)
            IN [next |-> scanned.next,
                exponent |-> IF sign = 45 THEN -scanned.exponent
                             ELSE scanned.exponent]
       ELSE [next |-> j, exponent |-> -e.scale]

DigitsRightOfPoint_None(e, scanned) == 0

\* Lines 214-222: what the place of the decimal point adds to the
\* exponent of the fraction in the buffer.
DigitsRightOfPoint(e, scanned) ==
  IF scanned.decimalPoint # None THEN scanned.decimalPoint
  ELSE Len(scanned.buf) - ValueOr(e.digits, 0)

UnusedNonblank_Ignored(e, i, got) == got

\* Lines 228-236: in a fixed-width field (remaining has a value) an unused
\* nonblank character makes the result 0.
UnusedNonblank(e, i, got) ==
  IF e.descriptor # "ListDirected" /\ e.width # None
       /\ NextInField(e.field, SkipSpaces(e.field, i)) # None
    THEN 0
    ELSE got

\* ScanRealInput(buffer, bufferSize, io, edit, exponent): got, the buffer
\* and the exponent.  `room` is bufferSize - start.
ScanRealInput(e, bufferSize) ==
  LET prefix == ScanNumericPrefix(e)
      first == NextInField(e.field, prefix.next)
      sign == IF prefix.negative /\ first # None THEN <<45>> ELSE <<>>
      room == bufferSize - (Len(sign) + 1)
  IN IF first = None
       THEN [got |-> Len(sign) + 1, buffer |-> sign \o <<48>>, exponent |-> 0]
     ELSE IF IsLetter(first)
       THEN LET letters == LetterLoop(e.field, prefix.next, <<>>, room)
                buffer == sign \o <<46>> \o letters.buf
                i == IF NextInField(e.field, letters.next) = 40
                       THEN SkipToParen(e.field, letters.next)
                       ELSE letters.next
            IN [got |-> UnusedNonblank(e, i, Len(buffer)),
                buffer |-> buffer, exponent |-> 0]
     ELSE IF first = Decimal(e) \/ IsDigit(first)
       THEN LET digits == DigitLoop(e, prefix.next, <<>>, None, room)
                scanned == [digits EXCEPT
                              !.buf = IF @ = <<>> /\ room > 0 THEN <<48>>
                                      ELSE @]
                expo == ScanExponent(e, scanned.next)
                buffer == sign \o <<46>> \o scanned.buf
            IN [got |-> UnusedNonblank(e, expo.next, Len(buffer)),
                buffer |-> buffer,
                exponent |-> expo.exponent + DigitsRightOfPoint(e, scanned)]
     ELSE [got |-> 0, buffer |-> sign \o <<46>>, exponent |-> 0]

\* EditCommonRealInput<binaryPrecision>(io, edit, n), with e.maxDigits for
\* common::MaxDecimalConversionDigits(binaryPrecision)
EditCommonRealInput(e) ==
  LET scan == ScanRealInput(e, e.maxDigits + 2)
  IN IF scan.got >= e.maxDigits + 2
       THEN [ok |-> FALSE, cond |-> "Crash: EditRealInput: buffer was too small",
             stored |-> NotConverted]
     ELSE IF scan.got = 0
       THEN [ok |-> FALSE, cond |-> "Bad REAL input value",
             stored |-> NotConverted]
     ELSE [ok |-> TRUE, cond |-> "none",
           stored |-> [buffer |-> scan.buffer, exponent |-> scan.exponent,
                       inexact |-> scan.got > e.maxDigits]]

\* common::BitsForBinaryPrecision(11): a real of 16 bits
RealBits == 16

\* What EditRealInput leaves in the destination where EditBOZInput read
\* the field: the bits it stored, or nothing.
BitsStored(boz) ==
  [boz EXCEPT !.stored = IF boz.ok THEN [bits |-> @] ELSE NotConverted]

\* EditRealInput<11>(io, edit, n)
EditRealInput(e) ==
  IF e.descriptor \in {"ListDirected", "F", "E", "D", "G"}
    THEN EditCommonRealInput(e)
  ELSE IF e.descriptor = "B" THEN BitsStored(EditBOZInput(e, 2, RealBits))
  ELSE IF e.descriptor = "O" THEN BitsStored(EditBOZInput(e, 8, RealBits))
  ELSE IF e.descriptor = "Z" THEN BitsStored(EditBOZInput(e, 16, RealBits))
  ELSE [ok |-> FALSE, cond |-> "IostatErrorInFormat", stored |-> NotConverted]

(***************************************************************************)
(* The fields the edit functions are applied to.                           *)
(***************************************************************************)

\* The longest field of arbitrary characters, and the most leading blanks in
\* front of a number's text.
MaxField == 4
MaxLead == 2

\* ' ', '1', '2', '8', 'B', 'G', 'g'
Alphabet == {32, 49, 50, 56, 66, 71, 103}

Blanks(k) == [i \in 1..k |-> 32]

\* The character of digit d: '0'..'9', then 'A'.. or 'a'..
DigitChar(d, upper) ==
  IF d < 10 THEN 48 + d ELSE IF upper THEN 55 + d ELSE 87 + d

\* The digits of v >= 0 in the given base, most significant first.
RECURSIVE DigitsOf(_, _, _)
DigitsOf(v, base, upper) ==
  IF v < base THEN <<DigitChar(v, upper)>>
  ELSE Append(DigitsOf(v \div base, base, upper), DigitChar(v % base, upper))

\* The decimal text of x behind `lead` blanks, with a '+' on request.
DecimalText(x, lead, plus) ==
  Blanks(lead)
    \o (IF x < 0 THEN <<45>> ELSE IF plus THEN <<43>> ELSE <<>>)
    \o DigitsOf(IF x < 0 THEN -x ELSE x, 10, TRUE)

\* The digits of a bit pattern in base 2, 8 or 16 behind `lead` blanks.
BOZText(pattern, base, lead, upper) ==
  Blanks(lead) \o DigitsOf(pattern, base, upper)

\* The integers of `kind` bytes, and the integer a stored bit pattern is.
IntegersOfKind(kind) ==
  (-Pow(2, 8 * kind - 1)) .. (Pow(2, 8 * kind - 1) - 1)

ToSigned(pattern, kind) ==
  IF pattern >= Pow(2, 8 * kind - 1) THEN pattern - Pow(2, 8 * kind)
  ELSE pattern

ToPattern(x, kind) == x % Pow(2, 8 * kind)

\* Two-byte integers beside all the one-byte ones.
SampleInts == {-32768, -6699, -129, 128, 255, 6699, 32767}

IntegerDescriptors == {"I", "G", "ListDirected", "B", "O", "Z", "A"}

BaseOf(descriptor) ==
  CASE descriptor = "B" -> 2
    [] descriptor = "O" -> 8
    [] descriptor = "Z" -> 16
    [] OTHER -> 10

\* The calls on the text of an integer: every one-byte integer and the
\* samples, in the descriptor's base.  `number` is the integer written.
NumberInputs(descriptor, kind) ==
  LET xs == IF kind = 1 THEN IntegersOfKind(1) ELSE SampleInts
  IN {[descriptor |-> descriptor, blankZero |-> bz, kind |-> kind,
       number |-> x,
       field |-> IF BaseOf(descriptor) = 10
                   THEN DecimalText(x, lead, alt)
                   ELSE BOZText(ToPattern(x, kind), BaseOf(descriptor),
                                lead, alt)] :
        x \in xs, lead \in 0..MaxLead, alt \in BOOLEAN, bz \in BOOLEAN}

\* The calls on arbitrary characters.
FieldInputs(descriptor, k) ==
  {[descriptor |-> descriptor, blankZero |-> bz, kind |-> kind, field |-> f] :
     bz \in BOOLEAN, kind \in {1, 2}, f \in [1..k -> Alphabet]}

\* One call of EditIntegerInput on a fresh destination.
CallEditIntegerInput ==
  /\ numOut = NoEdit
  /\ \E d \in IntegerDescriptors :
       \/ \E k \in {1, 2} : \E e \in NumberInputs(d, k) :
            /\ numIn' = e
            /\ numOut' = EditIntegerInput(e)
       \/ \E k \in 0..MaxField : \E e \in FieldInputs(d, k) :
            /\ numIn' = e
            /\ numOut' = EditIntegerInput(e)
  /\ UNCHANGED notNum

IntegerNext == CallEditIntegerInput

\* The most digits on either side of the decimal point of a real number's
\* text, and the largest d of the edit descriptor.
MaxText == 1
MaxD == 2

\* The digit strings of up to k characters '0' and '5'.
DigitStrings(k) == UNION {[1..j -> {48, 53}] : j \in 0..k}

\* Exponent parts: none, "E-1", "+2", "D 1"
Exponents ==
  {[text |-> <<>>, given |-> FALSE, value |-> 0],
   [text |-> <<69, 45, 49>>, given |-> TRUE, value |-> -1],
   [text |-> <<43, 50>>, given |-> TRUE, value |-> 2],
   [text |-> <<68, 32, 49>>, given |-> TRUE, value |-> 1]}

\* What stands behind the number: nothing, a blank, "x", " x"
Tails == {<<>>, <<32>>, <<120>>, <<32, 120>>}

\* The texts of real numbers: a sign, digits, a decimal point or none,
\* digits, an exponent part, a tail.
RealTexts ==
  {t \in [lead : 0..1, negative : BOOLEAN, int : DigitStrings(MaxText),
          point : BOOLEAN, frac : DigitStrings(MaxText), expo : Exponents,
          tail : Tails] :
     /\ t.int # <<>> \/ t.frac # <<>>
     /\ ~t.point => t.frac = <<>>}

\* "123", "1.23", "12.3", "0.05", "0.001", "0050", with and without an
\* exponent part
SampleTexts ==
  {[lead |-> 0, negative |-> FALSE, int |-> number[1], point |-> number[2],
    frac |-> number[3], expo |-> expo, tail |-> <<>>] :
     number \in {<<<<49, 50, 51>>, FALSE, <<>>>>,
                 <<<<49>>, TRUE, <<50, 51>>>>,
                 <<<<49, 50>>, TRUE, <<51>>>>,
                 <<<<48>>, TRUE, <<48, 53>>>>,
                 <<<<48>>, TRUE, <<48, 48, 49>>>>,
                 <<<<48, 48, 53, 48>>, FALSE, <<>>>>},
     expo \in Exponents}

\* The field a text is, with the given character for its decimal point.
RealField(t, decimal) ==
  Blanks(t.lead) \o (IF t.negative THEN <<45>> ELSE <<>>) \o t.int
    \o (IF t.point THEN <<decimal>> ELSE <<>>) \o t.frac
    \o t.expo.text \o t.tail

\* ' ', '1', '.', 'E', 'N', '(', ')'
RealAlphabet == {32, 49, 46, 69, 78, 40, 41}

RealDescriptors == {"F", "ListDirected", "Z", "I"}

\* edit.width: list-directed editing has none
WidthOf(descriptor, field) ==
  IF descriptor = "ListDirected" THEN None ELSE Len(field)

\* MaxDecimalConversionDigits(binaryPrecision) of an instantiation whose
\* buffer holds every field of the texts above, and of one whose buffer is
\* shorter than the fields of LongInputs.
ManyDigits == 12
FewDigits == 3

\* The calls on the text of a real number.  `text` is the number written.
RealNumberInputs(descriptor, text) ==
  {[descriptor |-> descriptor, blankZero |-> bz, decimalComma |-> mode[1],
    scale |-> mode[2], digits |-> d, maxDigits |-> ManyDigits,
    width |-> WidthOf(descriptor, RealField(text, IF mode[1] THEN 44 ELSE 46)),
    field |-> RealField(text, IF mode[1] THEN 44 ELSE 46), text |-> text] :
     bz \in BOOLEAN, mode \in {<<FALSE, 0>>, <<FALSE, 1>>, <<TRUE, 0>>},
     d \in {None} \cup 0..MaxD}

\* The calls on arbitrary characters.
RealFieldInputs(descriptor, k) ==
  {[descriptor |-> descriptor, blankZero |-> bz, decimalComma |-> FALSE,
    scale |-> 0, digits |-> 0, maxDigits |-> ManyDigits,
    width |-> WidthOf(descriptor, f), field |-> f] :
     bz \in BOOLEAN, f \in [1..k -> RealAlphabet]}

\* The field of k significant digits with its decimal point behind the
\* first `point` of them, or with none.
LongField(negative, digits, point) ==
  (IF negative THEN <<45>> ELSE <<>>)
    \o (IF point = None THEN digits
        ELSE SubSeq(digits, 1, point) \o <<46>>
               \o SubSeq(digits, point + 1, Len(digits)))

\* The calls on fields of up to FewDigits + 2 digits, none of them zero,
\* for a precision of FewDigits conversion digits.  `long` is the number
\* written.
LongInputs(k) ==
  {[descriptor |-> "F", blankZero |-> FALSE, decimalComma |-> FALSE,
    scale |-> 0, digits |-> 0, maxDigits |-> FewDigits,
    width |-> Len(LongField(negative, digits, point)),
    field |-> LongField(negative, digits, point),
    long |-> [negative |-> negative, digits |-> digits, point |-> point]] :
     negative \in BOOLEAN, digits \in [1..k -> {49, 53}],
     point \in {None} \cup 0..k}

\* One call of EditRealInput on a fresh destination.
CallEditRealInput ==
  /\ numOut = NoEdit
  /\ \/ \E d \in {"F", "ListDirected"}, t \in RealTexts :
          \E e \in RealNumberInputs(d, t) :
            /\ numIn' = e
            /\ numOut' = EditRealInput(e)
     \/ \E d \in {"F", "ListDirected"}, t \in SampleTexts :
          \E e \in RealNumberInputs(d, t) :
            /\ numIn' = e
            /\ numOut' = EditRealInput(e)
     \/ \E d \in RealDescriptors, k \in 0..MaxField :
          \E e \in RealFieldInputs(d, k) :
            /\ numIn' = e
            /\ numOut' = EditRealInput(e)
     \/ \E k \in 1..(FewDigits + 2) : \E e \in LongInputs(k) :
            /\ numIn' = e
            /\ numOut' = EditRealInput(e)
  /\ UNCHANGED notNum

RealNext == CallEditRealInput

(***************************************************************************)
(* IoErrorHandler::GetIoMsg (io-error.cpp)                                 *)
(*                                                                         *)
(* The message is a C string: its len characters and the terminating NUL   *)
(* are the whole object.  The caller's buffer has bufferLength bytes.  A   *)
(* read behind the NUL or a store behind the buffer is undefined: the call *)
(* either faults or goes through, reading some byte and storing into the   *)
(* memory that follows the buffer.                                         *)
(***************************************************************************)

\* The longest message and the longest buffer.
MaxMsg == 4
MaxBuffer == 5

\* The message of length len: "ABC..."
MsgText(len) == [i \in 1..len |-> 64 + i]

\* The buffer before the call: bufferLength bytes '?'
FreshBuffer(bufferLength) == [i \in 1..bufferLength |-> 63]

NoCall == [ret |-> "none"]

MsgInit ==
  /\ msgIn = [from |-> "none"]
  /\ msgOut = NoCall

MemcpyCount_Min(bufferLength, len) == Min(bufferLength, len)

\* The count of the std::memcpy of GetIoMsg
MemcpyCount(bufferLength, len) == Max(bufferLength, len)

\* GetIoMsg(buffer, bufferLength) where msg is not null.  `fault` and `junk`
\* are the choices an out-of-bounds access leaves open: whether the process
\* faults, and the byte a read behind the NUL finds.
GetIoMsg(text, bufferLength, fault, junk) ==
  LET len == Len(text)
      count == MemcpyCount(bufferLength, len)
      source == [i \in 1..count |->
                   IF i <= len THEN text[i] ELSE IF i = len + 1 THEN 0 ELSE junk]
      copied == [i \in 1..Max(bufferLength, count) |->
                   IF i <= count THEN source[i] ELSE 63]
      filled == [i \in 1..Len(copied) |->
                   IF bufferLength > len /\ i > len /\ i <= bufferLength
                     THEN 32 ELSE copied[i]]
  IN IF (count > len + 1 \/ count > bufferLength) /\ fault
       THEN [ret |-> "fault", buffer |-> FreshBuffer(bufferLength),
             behind |-> <<>>, read |-> count]
       ELSE [ret |-> "true", buffer |-> SubSeq(filled, 1, bufferLength),
             behind |-> SubSeq(filled, bufferLength + 1, Len(filled)),
             read |-> count]

\* ::strerror_r(ioStat_, buffer, bufferLength) == 0 (the C library's): the
\* message and its NUL where the buffer holds them, else a failure and the
\* message cut to fit.
StrerrorR(text, bufferLength) ==
  LET len == Len(text)
      kept == Min(len, Max(bufferLength - 1, 0))
  IN [ret |-> IF len + 1 <= bufferLength THEN "true" ELSE "false",
      buffer |-> [i \in 1..bufferLength |->
                    IF i <= kept THEN text[i]
                    ELSE IF i = kept + 1 THEN 0 ELSE 63],
      behind |-> <<>>, read |-> kept]

\* One call of GetIoMsg: the message is the saved ioMsg_, or the one
\* FortranErrorString(ioStat_) has, or neither exists.
CallGetIoMsg ==
  /\ msgOut = NoCall
  /\ \E from \in {"ioMsg_", "FortranErrorString", "strerror_r"},
        len \in 0..MaxMsg, bufferLength \in 0..MaxBuffer,
        fault \in BOOLEAN, junk \in {0, 90} :
       /\ msgIn' = [from |-> from, text |-> MsgText(len),
                    bufferLength |-> bufferLength]
       /\ msgOut' = IF from = "strerror_r"
                      THEN StrerrorR(MsgText(len), bufferLength)
                      ELSE GetIoMsg(MsgText(len), bufferLength, fault, junk)
  /\ UNCHANGED notMsg

MsgNext == CallGetIoMsg

MapNext ==
  \E t \in Threads :
    \/ LookUpOrCreate_Enter(t)
    \/ LookUpOrCreate(t)
    \/ LookUpForClose_Enter(t)
    \/ LookUpForClose_Find(t)
    \/ LookUpForClose_Move(t)
    \/ DestroyClosed_Enter(t)
    \/ DestroyClosed_Unlink(t)
    \/ DestroyClosed_Free(t)
    \/ CloseAll_Enter(t)
    \/ CloseAll_Unlink(t)
    \/ CloseAll_CloseUnit(t)
    \/ CloseAll_Destroy(t)
    \/ CloseAll_Return(t)
    \/ BeginIoStatement(t)
    \/ Transfer(t)
    \/ CloseUnit(t)
    \/ EndIoStatement(t)
    \/ UseAfterFree(t)

\* The registry's specification: the error handler stays as constructed.
InitMap ==
  /\ ErrInit
  /\ tailCalls = FALSE
  /\ MapInit
  /\ GetUnitMapInit
  /\ OpenInit
  /\ UnitInit
  /\ InternalInit
  /\ NumInit
  /\ MsgInit

SpecMap == InitMap /\ [][MapNext]_vars

ErrNext ==
  \/ Begin
  \/ HasFlag
  \/ CallSignalError
  \/ CallSignalEnd
  \/ CallSignalEor
  \/ SignalError
  \/ SignalEnd
  \/ SignalEor

\* The error handler's specification: the registry stays as constructed.
InitErr ==
  /\ ErrInit
  /\ MapInit
  /\ GetUnitMapInit
  /\ OpenInit
  /\ UnitInit
  /\ InternalInit
  /\ NumInit
  /\ MsgInit

SpecErr == InitErr /\ [][ErrNext]_vars

(***************************************************************************)
(* Properties of IoErrorHandler                                            *)
(***************************************************************************)

\* Priority rank of a condition code: error > end-of-file > end-of-record > 0.
Rank(code) ==
  IF code > 0 THEN 3
  ELSE IF code = IoErrorEnd THEN 2
  ELSE IF code = IoErrorEor THEN 1
  ELSE 0

AllRequested(f) ==
  /\ f \cap {hasIoStat, hasErr} # {}
  /\ hasEnd \in f
  /\ hasEor \in f

\* C1: within a statement that requested IOSTAT=/ERR=, END= and EOR=, no
\* step of SignalError, SignalEnd or SignalEor lowers the priority rank of
\* the recorded condition code (error > end-of-file > end-of-record > zero).
C1_RankNeverDecreases ==
  [][(AllRequested(flags_) /\ AllRequested(flags_'))
       => Rank(ioStat_') >= Rank(ioStat_)]_vars

\* C1 witness: SignalEnd has returned in such a statement and the error
\* that was recorded before it is still the recorded code.
C1_Witness ==
  /\ AllRequested(flags_)
  /\ entry = "SignalEnd"
  /\ epc = "idle"
  /\ ioStat_ > 0

Fatal == {"Crash", "StackOverflow"}

\* C2 (as claimed): a SignalEnd (SignalEor) call made when neither END=
\* (EOR=) nor IOSTAT=/ERR= was requested ends the process through Crash,
\* with its diagnostic, and in no other way.
C2_UnrequestedEndEorCrashes ==
  /\ (entry = "SignalEnd" /\ epc \in Fatal
        /\ flags_ \cap {hasEnd, hasIoStat, hasErr} = {}) => epc = "Crash"
  /\ (entry = "SignalEor" /\ epc \in Fatal
        /\ flags_ \cap {hasEor, hasIoStat, hasErr} = {}) => epc = "Crash"

\* C3 (as claimed): with IOSTAT= or ERR= requested and END= (EOR=) not, a
\* SignalEnd (SignalEor) call does not end the process, and once it has
\* returned the end-of-file (end-of-record) code is recorded, unless a code
\* of higher priority already was.
C3_EndEorRecoverableWithIoStat ==
  /\ (entry = "SignalEnd" /\ hasEnd \notin flags_
        /\ flags_ \cap {hasIoStat, hasErr} # {})
       => /\ epc \notin Fatal
          /\ epc = "idle" => (ioStat_ = IoErrorEnd \/ Rank(ioStat_) > Rank(IoErrorEnd))
  /\ (entry = "SignalEor" /\ hasEor \notin flags_
        /\ flags_ \cap {hasIoStat, hasErr} # {})
       => /\ epc \notin Fatal
          /\ epc = "idle" => (ioStat_ = IoErrorEor \/ Rank(ioStat_) > Rank(IoErrorEor))

\* C4: with IOSTAT= or ERR= requested, SignalError with a positive code
\* returns without aborting; it records the code when no positive code is
\* recorded yet, and otherwise leaves the code and the saved message as
\* they are.
C4_FirstErrorWins ==
  [][(epc = "SignalError" /\ iostatOrErrno > 0
        /\ flags_ \cap {hasIoStat, hasErr} # {})
       => /\ epc' = "idle"
          /\ IF ioStat_ > 0
               THEN ioStat_' = ioStat_ /\ ioMsg_' = ioMsg_
               ELSE ioStat_' = iostatOrErrno]_vars

\* C4 witness: a later error, with another code and another message, has
\* been signalled and the first error's code and message are still recorded.
C4_Witness ==
  /\ entry = "SignalError"
  /\ epc = "idle"
  /\ flags_ \cap {hasIoStat, hasErr} # {}
  /\ iostatOrErrno > 0
  /\ ioStat_ > 0
  /\ ioStat_ # iostatOrErrno
  /\ msg # NoMsg
  /\ ioMsg_ \notin {NoMsg, msg}

(***************************************************************************)
(* Properties of the registry and of the units' lifecycle                  *)
(***************************************************************************)

\* The chains as sequences of nodes.
BucketNodes(j) == Nodes(bucket_[j])
ClosingNodes == Nodes(closing_)

\* How often node u is linked: in bucket j, in the whole live table, on the
\* closing chain.
Count(s, u) == Cardinality({i \in 1..Len(s) : s[i] = u})
LiveCount(u) ==
  LET RECURSIVE Sum(_)
      Sum(j) == IF j < 0 THEN 0 ELSE Count(BucketNodes(j), u) + Sum(j - 1)
  IN Sum(Buckets - 1)
ClosingCount(u) == Count(ClosingNodes, u)

InLive(u) == LiveCount(u) > 0
InClosing(u) == ClosingCount(u) > 0
NumberLive(k) == {u \in Allocated : InLive(u) /\ chain[u].unitNumber_ = k}
NumberClosing(k) == {u \in Allocated : InClosing(u) /\ chain[u].unitNumber_ = k}
AllNumbers == {5, 6, 7}

C6_DestroyedOnlyClosedAndUnheld ==
  [][\A u \in Allocated :
       (~chain[u].freed /\ chain'[u].freed)
         => /\ chain[u].wasClosing
            /\ chain[u].lock_ = NoThread
            /\ ~\E t \in Threads : inStmt[t] /\ ref[t] = u]_vars

\* The threads in a statement on unit u.
Active(u) == {t \in Threads : inStmt[t] /\ ref[t] = u}

\* C7: on every unit (every node not freed) at most one thread is between
\* BeginIoStatement and EndIoStatement; that thread holds the unit's lock
\* and the variant is set, and with no statement the variant is empty and
\* the lock free.
C7_OneStatementPerUnit ==
  \A u \in Live :
    /\ Cardinality(Active(u)) <= 1
    /\ \A t \in Active(u) : chain[u].lock_ = t /\ chain[u].u_ = "statement"
    /\ Active(u) = {} => chain[u].lock_ = NoThread /\ chain[u].u_ = "monostate"

\* C7 witness: one thread is in a statement on a unit while the other has
\* looked the same unit up and waits in BeginIoStatement for its lock.
C7_Witness ==
  \E u \in Live : \E t1, t2 \in Threads :
    /\ t1 # t2
    /\ Active(u) = {t1}
    /\ ref[t2] = u /\ ~inStmt[t2] /\ pc[t2] = "idle"
    /\ ~CanTake(u)

\* C8: LookUpForClose(n) runs in one critical section.  When it returns
\* null, n was not in the live table and the registry is unchanged.  When it
\* returns a unit, that unit is numbered n, was in the live table, had not
\* been handed out by an earlier LookUpForClose, is now the head of the
\* closing chain and no longer in the live table, and LookUp(n) is null.
\* LookUp(n) changes from null to a unit only by the creation of a unit.
C8_LookUpForCloseAtomic ==
  [][/\ \A t \in Threads :
          /\ pc[t] \in {"LookUpForClose_find", "LookUpForClose_move"} => lock_ = t
          /\ (pc[t] = "LookUpForClose_find" /\ pc'[t] = "idle")
               => /\ Find(n[t]) = 0
                  /\ ref'[t] = 0
                  /\ UNCHANGED <<bucket_, closing_, chain>>
          /\ (pc[t] = "LookUpForClose_move" /\ pc'[t] = "idle")
               => /\ ref'[t] = p[t]
                  /\ chain[p[t]].unitNumber_ = n[t]
                  /\ Find(n[t]) = p[t]
                  /\ ~chain[p[t]].wasClosing
                  /\ closing_' = p[t]
                  /\ ~InLive(p[t])'
                  /\ Find(n[t])' = 0
     /\ \A k \in AllNumbers :
          (Find(k) = 0 /\ Find(k)' # 0) => Find(k)' > Len(chain)]_vars

\* C8 witness: one thread has obtained unit 5 from LookUpForClose(5) while
\* the other is inside its own LookUpForClose(5), which finds nothing.
C8_Witness ==
  \E t1, t2 \in Threads :
    /\ t1 # t2
    /\ closeStep[t1] # "none" /\ ref[t1] # 0 /\ pc[t1] = "idle"
    /\ chain[ref[t1]].unitNumber_ = 5 /\ InClosing(ref[t1])
    /\ pc[t2] = "LookUpForClose_find" /\ n[t2] = 5
    /\ Find(5) = 0

\* C9 (as claimed): when DestroyClosed returns, the unit it was called on
\* (obtained from LookUpForClose) has been released and is not on the
\* closing chain.
C9_DestroyClosedReleases ==
  [][\A t \in Threads :
       (pc[t] = "DestroyClosed_free" /\ pc'[t] = "idle")
         => /\ chain'[ref[t]].freed
            /\ ~InClosing(ref[t])']_vars

\* C10 (as claimed): no operation on a unit's file is performed by a thread
\* that holds the registry lock.
C10_NoIoUnderRegistryLock == ~lastIo.lockHeld

(***************************************************************************)
(* Properties of ExternalFileUnit::GetUnitMap                              *)
(***************************************************************************)

\* The first access to the registry: the map stays as constructed otherwise.
InitInit ==
  /\ ErrInit
  /\ tailCalls = FALSE
  /\ MapInit
  /\ GetUnitMapInit
  /\ OpenInit
  /\ UnitInit
  /\ InternalInit
  /\ NumInit
  /\ MsgInit

SpecInit == InitInit /\ [][InitNext]_vars

\* Map m holds unit 5, readable only, and unit 6, writable only, neither
\* positionable.
HasPredefinedUnits(m) ==
  /\ FindIn(m, 5) # 0
  /\ LET in == maps[m].units[FindIn(m, 5)]
     IN in.predefined /\ in.mayRead /\ ~in.mayWrite /\ ~in.mayPosition
  /\ FindIn(m, 6) # 0
  /\ LET out == maps[m].units[FindIn(m, 6)]
     IN out.predefined /\ ~out.mayRead /\ out.mayWrite /\ ~out.mayPosition

\* C11 (as claimed): whenever a thread's access to the registry has
\* returned, the map it was given holds unit 5 (may be read, not written,
\* not positioned) and unit 6 (may be written, not read, not positioned).
C11_PredefinedUnitsExist ==
  \A t \in Threads :
    (gret[t] # 0 /\ gpc[t] = "idle") => HasPredefinedUnits(gret[t])

LiveMaps == {m \in 1..Len(maps) : ~maps[m].freed}
UnitsNumbered(k) ==
  {<<m, i>> \in LiveMaps \X (1..4) :
     i <= Len(maps[m].units) /\ maps[m].units[i].unitNumber_ = k}

\* C12 (as claimed): at any time at most one UnitMap exists, all threads
\* whose access has returned were given that one, and units 5 and 6 were
\* each created at most once.
C12_OneRegistryPerProcess ==
  /\ Cardinality(LiveMaps) <= 1
  /\ \A t1, t2 \in Threads :
       (gret[t1] # 0 /\ gret[t2] # 0) => gret[t1] = gret[t2]
  /\ Cardinality(UnitsNumbered(5)) <= 1
  /\ Cardinality(UnitsNumbered(6)) <= 1

(***************************************************************************)
(* Properties of OpenUnit and of the record engine                         *)
(***************************************************************************)

InitOpen ==
  /\ ErrInit
  /\ tailCalls = FALSE
  /\ MapInit
  /\ GetUnitMapInit
  /\ OpenInit
  /\ UnitInit
  /\ InternalInit
  /\ NumInit
  /\ MsgInit

SpecOpen == InitOpen /\ [][OpenNext]_vars

\* C13: OpenUnit on an open unit with status OLD and no path, or a path
\* byte-identical to the current one, is a no-op: nothing is flushed, closed
\* or opened and the unit's path, connection and position state stay as they
\* were; any other OpenUnit on an open unit does Flush, Close(Keep), set_path
\* and Open in that order and leaves the new path in place.
C13_OpenOnOpenUnit ==
  [][isOpen =>
       IF /\ openArgs'.status = "Old"
          /\ openArgs'.newPath \in {NullPath, path}
         THEN /\ effects' = <<>>
              /\ isOpen'
              /\ path' = path
              /\ UNCHANGED unitVars
         ELSE /\ effects' = <<"Flush", "Close(Keep)", "set_path", "Open">>
              /\ path' = openArgs'.newPath]_vars

\* An open unit named "ab" has been given OPEN(STATUS='OLD', FILE="ab") and
\* nothing was done.
C13_Witness ==
  /\ isOpen
  /\ path = <<97, 98>>
  /\ openArgs.status = "Old"
  /\ openArgs.newPath = path
  /\ effects = <<>>

InitUnit ==
  /\ ErrInit
  /\ tailCalls = FALSE
  /\ MapInit
  /\ GetUnitMapInit
  /\ OpenInit
  /\ UnitInit
  /\ InternalInit
  /\ NumInit
  /\ MsgInit

SpecUnit == InitUnit /\ [][UnitNext]_vars

\* C14: Emit of `bytes` bytes on a record with a known recordLength, when
\* max(furthestPositionInRecord, positionInRecord + bytes) exceeds
\* recordLength, signals the record-write-overrun condition, returns false
\* (where the handler lets it return), writes nothing to the frame and leaves
\* positionInRecord and furthestPositionInRecord as they were; otherwise it
\* returns true, with positionInRecord advanced by bytes and
\* furthestPositionInRecord the larger of its old value and the new position.
C14_EmitOverrun ==
  [][result'.op = "Emit" =>
       LET bytes == Len(result'.arg)
           after == Max(furthestPositionInRecord, positionInRecord + bytes)
       IN IF recordLength # None /\ after > recordLength
            THEN /\ signalled'.cond = "RecordWriteOverrun"
                 /\ ~crashed' => result'.value = "false"
                 /\ file' = file
                 /\ positionInRecord' = positionInRecord
                 /\ furthestPositionInRecord' = furthestPositionInRecord
            ELSE /\ signalled' = NoSignal
                 /\ result'.value = "true"
                 /\ positionInRecord' = positionInRecord + bytes
                 /\ furthestPositionInRecord' =
                      Max(furthestPositionInRecord, positionInRecord')
                 /\ Bytes(file', offsetInFile + positionInRecord, bytes)
                      = result'.arg]_vars

\* A two-byte Emit into a record of length Recl that already holds Recl - 1
\* bytes was refused and returned false.
C14_Witness ==
  /\ result.op = "Emit"
  /\ result.value = "false"
  /\ Len(result.arg) = 2
  /\ signalled.cond = "RecordWriteOverrun"
  /\ recordLength = Recl
  /\ positionInRecord = Recl - 1
  /\ furthestPositionInRecord = Recl - 1

\* C15: every call of AdvanceRecord that returns, whatever the direction,
\* access mode and formatting, increases currentRecordNumber by exactly one
\* and leaves positionInRecord = 0, furthestPositionInRecord = 0 and
\* leftTabLimit unset.
C15_AdvanceRecordCountsOne ==
  [][(result'.op = "AdvanceRecord" /\ ~crashed') =>
       /\ currentRecordNumber' = currentRecordNumber + 1
       /\ positionInRecord' = 0
       /\ furthestPositionInRecord' = 0
       /\ leftTabLimit' = None]_vars

C17_UnformattedRoundTrip ==
  (/\ roundTrip /\ isUnformatted /\ access = "Sequential"
   /\ result.op = "AdvanceRecord" /\ loads = 1)
    => /\ signalled = NoSignal
       /\ readBack = written
       /\ recordLength = Len(written[1])

\* C18: on formatted output with no recordLength, AdvanceRecord on a record
\* holding n payload bytes puts the newline at record index n, right after
\* the payload, keeps the payload and advances offsetInFile by n + 1.
C18_NewlineAfterPayload ==
  [][(/\ result'.op = "AdvanceRecord"
      /\ ~isReading_ /\ ~isUnformatted /\ recordLength = None) =>
       LET payload == furthestPositionInRecord
       IN /\ Len(file') >= offsetInFile + payload + 1
          /\ file'[offsetInFile + payload + 1] = 10
          /\ Bytes(file', offsetInFile, payload) = Bytes(file, offsetInFile, payload)
          /\ offsetInFile' = offsetInFile + payload + 1]_vars

\* C19: when the sequential unformatted next-record operation reads a record
\* whose frame is wholly in the file, a trailing length that differs from the
\* leading one makes it signal the header/footer mismatch and leave
\* recordLength as it was; equal lengths make it signal nothing and set
\* recordLength to the header.
C19_HeaderMatchesFooter ==
  [][(/\ result'.op = "AdvanceRecord"
      /\ isReading_ /\ isUnformatted /\ access = "Sequential"
      /\ ~(/\ recordLength # None /\ endfileRecordNumber # None
           /\ currentRecordNumber + 1 >= endfileRecordNumber)) =>
       LET at == IF recordLength = None THEN offsetInFile
                 ELSE offsetInFile + recordLength + 2 * SizeofHeader
           header == Int32At(file, at)
           footer == Int32At(file, at + SizeofHeader + header)
       IN (/\ Len(file) >= at + SizeofHeader
           /\ header >= 0
           /\ Len(file) >= at + header + 2 * SizeofHeader) =>
            IF footer # header
              THEN /\ signalled'.cond = "header does not match footer"
                   /\ recordLength' = recordLength
              ELSE /\ signalled' = NoSignal
                   /\ recordLength' = header]_vars

\* The first record, of one byte, was accepted; the second, with header 2
\* and footer 3, was refused and recordLength is still 1.
C19_Witness ==
  /\ result.op = "AdvanceRecord"
  /\ readBack = <<<<7>>>>
  /\ signalled.cond = "header does not match footer"
  /\ recordLength = 1
  /\ Int32At(file, offsetInFile) = 2
  /\ Int32At(file, offsetInFile + SizeofHeader + 2) = 3

\* C20: the record number cited by a corruption error of unformatted input
\* is the 1-based ordinal of the offending record: when a file of two
\* records, the second with a damaged footer, is read in order, each read
\* being one AdvanceRecord, the error raised at the second record cites
\* record 2.
C20_CitesOrdinal ==
  (/\ file = Framed(1, <<7>>, 1) \o Framed(2, <<8, 9>>, 3)
   /\ result.op = "AdvanceRecord"
   /\ signalled.cond = "header does not match footer"
   /\ signalled.offset = Len(Framed(1, <<7>>, 1))
   /\ signalled.load = 2)
    => signalled.record = 2

\* The number of payload bytes of the formatted record at the start of file
\* f: the bytes before the first newline, a carriage return right before the
\* newline not counted.
PayloadLength(f) ==
  LET nl == NewlineIn(f, 0, 0, Len(f))
  IN IF nl > 0 /\ f[nl] = 13 THEN nl - 1 ELSE nl

\* C21: for a formatted sequential record of n payload bytes followed by
\* '\n' or by '\r\n', the sequential formatted next-record operation sets
\* recordLength to n.
C21_RecordLengthIsPayload ==
  (/\ result.op = "AdvanceRecord"
   /\ isReading_ /\ ~isUnformatted /\ access = "Sequential"
   /\ loads = 1 /\ offsetInFile = 0 /\ signalled = NoSignal
   /\ NewlineIn(file, 0, 0, Len(file)) # None)
    => recordLength = PayloadLength(file)

\* C22: reading signals end-of-file exactly when the record to be read has
\* number >= endfileRecordNumber: a sequential unformatted unit holding two
\* records (endfileRecordNumber = 3), read from the start with AdvanceRecord
\* between the records, delivers record 1 and record 2 before any
\* end-of-file.
C22_EndfileNotEarly ==
  (/\ isReading_ /\ isUnformatted /\ access = "Sequential"
   /\ file = Framed(1, <<7>>, 1) \o Framed(2, <<8, 9>>, 2)
   /\ endfileRecordNumber = 3
   /\ result.op = "AdvanceRecord"
   /\ loads = 2
   /\ Len(readBack) >= 1 /\ readBack[1] = <<7>>)
    => /\ signalled = NoSignal
       /\ readBack = << <<7>>, <<8, 9>> >>

(***************************************************************************)
(* Properties of InternalDescriptorUnit                                    *)
(***************************************************************************)

InitInternal ==
  /\ ErrInit
  /\ tailCalls = FALSE
  /\ MapInit
  /\ GetUnitMapInit
  /\ OpenInit
  /\ UnitInit
  /\ InternalInit
  /\ NumInit
  /\ MsgInit

SpecInternal == InitInternal /\ [][InternalNext]_vars

\* The checks of an output unit's Emit, on the step that makes the call.
EmitStep == internalOut'.op = "Emit" /\ ~internal.isInput

\* The overruns of Emit(data, bytes): the record to write is past the last
\* one; the write would pass recordLength.
PastLastRecord ==
  internal.currentRecordNumber >= internal.endfileRecordNumber

PastRecordLength ==
  Max(internal.furthestPositionInRecord,
      internal.positionInRecord + Len(internalOut'.arg)) > internal.recordLength

\* Emit signalled cond and returned false (where the handler returned).
Refused(cond) ==
  /\ internalOut'.cond = cond
  /\ ~internal'.crashed => internalOut'.value = "false"

WithinRecord ==
  /\ internal'.positionInRecord <= internal'.furthestPositionInRecord
  /\ internal'.furthestPositionInRecord <= internal'.recordLength
  /\ internalOut'.extent <= internal'.recordLength
  /\ \A i \in 1..Len(internal.elements) :
       i # internal.at_ => internal'.elements[i] = internal.elements[i]

C25_EndIoStatementBlankFills ==
  [][internalOut'.op = "EndIoStatement" =>
       LET u == internal
           v == internal'
       IN IF u.isInput THEN v = u
          ELSE /\ v.currentRecordNumber = u.endfileRecordNumber
               /\ \A r \in 1..Len(u.elements) :
                    \A i \in 1..u.recordLength :
                      v.elements[r][i] =
                        IF \/ r > u.currentRecordNumber
                           \/ /\ r = u.currentRecordNumber
                              /\ i > u.furthestPositionInRecord
                          THEN 32 ELSE u.elements[r][i]]_vars

\* A statement that wrote one byte into the first of two records has ended:
\* the rest of the first record and all of the second are blank.
C25_Witness ==
  /\ internalOut.op = "EndIoStatement"
  /\ ~internal.isInput
  /\ internal.elements = << <<65, 32>>, <<32, 32>> >>
  /\ internal.currentRecordNumber = 3

(***************************************************************************)
(* ExternalFileUnit::Emit and InternalDescriptorUnit<false>::Emit side by  *)
(* side: an external unit on a fixed-length record and an internal unit    *)
(* over one element start with the same positions, record length and       *)
(* record bytes, and each is given one Emit.                               *)
(***************************************************************************)

\* What the record holds at the start.
RecordContents == {[i \in 1..Recl |-> 120], [i \in 1..Recl |-> 48 + i]}

InitPair ==
  /\ ErrInit
  /\ tailCalls = FALSE
  /\ MapInit
  /\ GetUnitMapInit
  /\ OpenInit
  /\ NumInit
  /\ MsgInit
  /\ \E pos, furthest \in 0..Recl, rec \in BOOLEAN, contents \in RecordContents :
       /\ isReading_ = FALSE
       /\ isUnformatted = FALSE
       /\ access = "Direct"
       /\ recordLength = Recl
       /\ positionInRecord = pos
       /\ furthestPositionInRecord = furthest
       /\ leftTabLimit = None
       /\ currentRecordNumber = 1
       /\ endfileRecordNumber = None
       /\ offsetInFile = 0
       /\ nonAdvancing = FALSE
       /\ file = contents
       /\ recoverable = rec
       /\ crashed = FALSE
       /\ signalled = NoSignal
       /\ result = NoResult
       /\ written = <<>>
       /\ readBack = <<>>
       /\ loads = 0
       /\ roundTrip = FALSE
       /\ internal = [isInput |-> FALSE, recordLength |-> Recl,
                      endfileRecordNumber |-> 2, currentRecordNumber |-> 1,
                      positionInRecord |-> pos,
                      furthestPositionInRecord |-> furthest,
                      nonAdvancing |-> FALSE, pad |-> FALSE, at_ |-> 1,
                      elements |-> <<contents>>, recoverable |-> rec,
                      crashed |-> FALSE]
       /\ internalOut = [NoOut EXCEPT !.op = "Construct"]

PairNext ==
  \/ result = NoResult /\ Emit
  \/ internalOut.op = "Construct" /\ Internal_Emit

SpecPair == InitPair /\ [][PairNext]_vars

\* C24: from the same positionInRecord, furthestPositionInRecord,
\* recordLength and record bytes, and with the same data, the Emit of an
\* internal output unit and the Emit of an external unit on a fixed-length
\* record return the same value, signal the same condition and leave the
\* same positions and the same record bytes.
C24_EmitsAgree ==
  (/\ result.op = "Emit" /\ internalOut.op = "Emit"
   /\ result.arg = internalOut.arg)
    => /\ result.value = internalOut.value
       /\ signalled.cond = internalOut.cond
       /\ positionInRecord = internal.positionInRecord
       /\ furthestPositionInRecord = internal.furthestPositionInRecord
       /\ file = internal.elements[1]


(***************************************************************************)
(* Properties of integer input editing                                     *)
(***************************************************************************)

InitInteger ==
  /\ ErrInit /\ (tailCalls = FALSE)
  /\ MapInit
  /\ GetUnitMapInit
  /\ OpenInit
  /\ UnitInit
  /\ InternalInit
  /\ NumInit
  /\ MsgInit

SpecInteger == InitInteger /\ [][IntegerNext]_vars

\* EditIntegerInput has been called.
Edited == numIn.descriptor # "none"

\* C26: the decimal text of an integer x of the destination's width, behind
\* optional blanks and with an optional sign, stores x under I, G and
\* list-directed editing, and the base-2, -8 or -16 digits of a bit pattern
\* of that width store the pattern under B, O and Z editing.
C26_IntegerRoundTrip ==
  Edited /\ "number" \in DOMAIN numIn /\ numIn.descriptor # "A" =>
    /\ numOut.ok
    /\ numOut.cond = "none"
    /\ numOut.stored = ToPattern(numIn.number, numIn.kind)
    /\ BaseOf(numIn.descriptor) = 10 =>
         ToSigned(numOut.stored, numIn.kind) = numIn.number

\* Z editing of "  1A2B" into a two-byte integer has stored 6699.
C26_Witness ==
  /\ numIn = [descriptor |-> "Z", blankZero |-> FALSE, kind |-> 2,
              number |-> 6699, field |-> <<32, 32, 49, 65, 50, 66>>]
  /\ numOut = [ok |-> TRUE, cond |-> "none", stored |-> 6699]
\* The digits of each base as the Fortran standard has them.
DigitOfBase(ch, base) ==
  \/ ch >= 48 /\ ch <= 49
  \/ base >= 8 /\ ch >= 50 /\ ch <= 55
  \/ base >= 10 /\ ch >= 56 /\ ch <= 57
  \/ base = 16 /\ ch >= 65 /\ ch <= 70
  \/ base = 16 /\ ch >= 97 /\ ch <= 102

\* The index the digits of the field begin at: behind the leading blanks
\* and, in base 10, behind one sign.
FirstDigit(e) ==
  IF BaseOf(e.descriptor) = 10 THEN ScanNumericPrefix(e).next
  ELSE SkipSpaces(e.field, 1)

\* C27: a field with a character that is neither a blank nor a digit of the
\* selected base (I, G, list-directed: 0-9; B: 0-1; O: 0-7; Z: 0-9, A-F,
\* a-f) is rejected: the bad character is signalled, false is returned and
\* nothing is stored.
C27_RejectsNonDigits ==
  ( /\ Edited
    /\ numIn.descriptor # "A"
    /\ \E i \in FirstDigit(numIn)..Len(numIn.field) :
         /\ numIn.field[i] # 32
         /\ ~DigitOfBase(numIn.field[i], BaseOf(numIn.descriptor)) )
  => ( /\ ~numOut.ok
       /\ numOut.cond \in {"Bad character in B/O/Z input field",
                           "Bad character in INTEGER input field"}
       /\ numOut.stored = Unstored )

\* The field with every blank behind its first non-blank character replaced
\* by '0' (BZ) or removed (BN).
RECURSIVE BlanksResolved(_, _, _)
BlanksResolved(field, i, bz) ==
  IF i > Len(field) THEN <<>>
  ELSE IF field[i] # 32 THEN <<field[i]>> \o BlanksResolved(field, i + 1, bz)
  ELSE IF bz THEN <<48>> \o BlanksResolved(field, i + 1, bz)
  ELSE BlanksResolved(field, i + 1, bz)

\* C28: under every base a blank behind the first non-blank character
\* counts as '0' in BZ mode and is skipped otherwise: the call's outcome is
\* that of the field with those blanks replaced by '0' or removed.
C28_BlankZeroEveryBase ==
  Edited /\ numIn.descriptor # "A" =>
    LET first == SkipSpaces(numIn.field, 1)
        resolved == [numIn EXCEPT
                       !.field = Blanks(first - 1)
                                   \o BlanksResolved(numIn.field, first,
                                                     numIn.blankZero)]
    IN numOut = EditIntegerInput(resolved)

(***************************************************************************)
(* Properties of real input editing                                        *)
(***************************************************************************)

InitReal ==
  /\ ErrInit /\ (tailCalls = FALSE)
  /\ MapInit
  /\ GetUnitMapInit
  /\ OpenInit
  /\ UnitInit
  /\ InternalInit
  /\ NumInit
  /\ MsgInit

SpecReal == InitReal /\ [][RealNext]_vars

\* EditRealInput has been called on the text of a number.
EditedNumber == Edited /\ "text" \in DOMAIN numIn

\* The integer a sequence of decimal digits is.
RECURSIVE DecimalValue(_)
DecimalValue(digits) ==
  IF digits = <<>> THEN 0
  ELSE 10 * DecimalValue(SubSeq(digits, 1, Len(digits) - 1))
         + (digits[Len(digits)] - 48)

\* The digits of the fraction in the buffer, behind "." or "-.".
Fraction(buffer) ==
  SubSeq(buffer, IF buffer[1] = 45 THEN 3 ELSE 2, Len(buffer))

\* The blanks a tail begins with.
RECURSIVE LeadingBlanks(_)
LeadingBlanks(tail) ==
  IF tail # <<>> /\ tail[1] = 32 THEN 1 + LeadingBlanks(Tail(tail)) ELSE 0

\* The digits of a point-less number's field: those written and, in BZ
\* mode, one zero for each blank that follows them directly.
FieldDigits(e) ==
  e.text.int
    \o (IF e.blankZero /\ ~e.text.expo.given
          THEN [i \in 1..LeadingBlanks(e.text.tail) |-> 48]
          ELSE <<>>)

\* The exponent a number's text gives, or -kP where it gives none.
WrittenExponent(e) ==
  IF e.text.expo.given THEN e.text.expo.value ELSE -e.scale

\* C29: the d of the edit descriptor bears on the exponent exactly when the
\* field has no decimal point (or comma): with one, the outcome is the same
\* for every d; with none, the value is the integer the field's digits are
\* times 10^(exponent - d), so d of the digits lie right of the assumed
\* point, and another d gives another exponent.
C29_DigitsOnlyWithoutPoint ==
  EditedNumber =>
    /\ numIn.text.point =>
         \A d \in {None} \cup 0..MaxD :
           EditRealInput([numIn EXCEPT !.digits = d]) = numOut
    /\ ~numIn.text.point /\ numOut.ok =>
         LET fraction == Fraction(numOut.stored.buffer)
         IN /\ DecimalValue(fraction) = DecimalValue(FieldDigits(numIn))
            /\ numOut.stored.exponent - Len(fraction)
                 = WrittenExponent(numIn) - ValueOr(numIn.digits, 0)
            /\ \A d \in 0..MaxD :
                 d # ValueOr(numIn.digits, 0) =>
                   EditRealInput([numIn EXCEPT !.digits = d]) # numOut

\* F editing with d = 2 has read "123" as .123e1, which is 1.23.
C29_Witness ==
  /\ numIn.descriptor = "F" /\ numIn.digits = 2 /\ numIn.scale = 0
  /\ numIn.field = <<49, 50, 51>>
  /\ numOut = [ok |-> TRUE, cond |-> "none",
               stored |-> [buffer |-> <<46, 49, 50, 51>>, exponent |-> 1,
                           inexact |-> FALSE]]

\* C30: in a fixed-width field a nonblank character left over behind the
\* value or its exponent fails the edit: "Bad REAL input value" is
\* signalled, false is returned and nothing is stored; blanks alone behind
\* the number do not.
C30_UnusedNonblankFails ==
  EditedNumber /\ numIn.width # None =>
    IF \E i \in 1..Len(numIn.text.tail) : numIn.text.tail[i] # 32
      THEN /\ ~numOut.ok
           /\ numOut.cond = "Bad REAL input value"
           /\ numOut.stored = NotConverted
      ELSE /\ numOut.ok
           /\ numOut.cond = "none"
           /\ numOut.stored # NotConverted

\* F editing of "5.5 x" has failed.
C30_Witness ==
  /\ numIn.descriptor = "F" /\ numIn.width = 5
  /\ numIn.field = <<53, 46, 53, 32, 120>>
  /\ numOut = [ok |-> FALSE, cond |-> "Bad REAL input value",
               stored |-> NotConverted]

\* EditRealInput has been called on a field of significant digits only.
EditedLong == Edited /\ "long" \in DOMAIN numIn

\* C31: a field with more significant digits than the precision's maximum
\* of decimal conversion digits is converted with the inexact flag raised
\* and true returned; no number of digits ends the process.
C31_ManyDigitsInexact ==
  EditedLong /\ Len(numIn.long.digits) > numIn.maxDigits =>
    /\ numOut.ok
    /\ numOut.cond = "none"
    /\ numOut.stored # NotConverted
    /\ numOut.stored.inexact

\* The digits without the zeros they begin with.
RECURSIVE Significant(_)
Significant(digits) ==
  IF digits # <<>> /\ digits[1] = 48 THEN Significant(Tail(digits))
  ELSE digits

\* What the place of the decimal point contributes: the digits in front of
\* the observed point, or the digit count minus d where there is none (one
\* digit where all are zeros).
PointAdjustment(e) ==
  IF e.text.point THEN Len(Significant(e.text.int))
  ELSE (IF Significant(FieldDigits(e)) = <<>> THEN 1
        ELSE Len(Significant(FieldDigits(e))))
         - ValueOr(e.digits, 0)

\* C32 as stated: the final exponent is the parsed exponent (zero where the
\* field has none) minus the scale factor k plus the decimal-point
\* adjustment, with or without an explicit exponent.
C32_AsStated ==
  EditedNumber /\ numOut.ok =>
    numOut.stored.exponent
      = numIn.text.expo.value - numIn.scale + PointAdjustment(numIn)

\* C32: the final exponent is the parsed exponent where the field has one
\* and minus the scale factor k where it has none, plus the decimal-point
\* adjustment.
C32_ScaleWithoutExponent ==
  EditedNumber /\ numOut.ok =>
    numOut.stored.exponent
      = (IF numIn.text.expo.given THEN numIn.text.expo.value
         ELSE -numIn.scale)
        + PointAdjustment(numIn)

\* F editing under 1P with d = 0 has read "5E-1" as .5e0: the exponent is
\* -1 + 1 and the scale factor is not in it.
C32_Witness ==
  /\ numIn.descriptor = "F" /\ numIn.scale = 1 /\ numIn.digits = 0
  /\ numIn.field = <<53, 69, 45, 49>>
  /\ numOut.ok /\ numOut.stored.buffer = <<46, 53>>
  /\ numOut.stored.exponent = 0

\* C34: of a field of decimal digits with one decimal point, an optional
\* sign and no exponent, the digit string and the exponent handed to the
\* conversion denote exactly the value written, also where zeros stand
\* between the point and the first digit that is not zero: .digits times
\* 10^exponent is int.frac, and the sign is the field's.
C34_PointFieldValue ==
  EditedNumber /\ numIn.text.point /\ ~numIn.text.expo.given
      /\ numIn.scale = 0 /\ numOut.ok =>
    LET fraction == Fraction(numOut.stored.buffer)
        fieldDigits == numIn.text.int \o numIn.text.frac
        shift == numOut.stored.exponent - Len(fraction)
                   + Len(numIn.text.frac)
    IN /\ (numOut.stored.buffer[1] = 45) = numIn.text.negative
       /\ IF shift >= 0
            THEN DecimalValue(fraction) * Pow(10, shift)
                   = DecimalValue(fieldDigits)
            ELSE DecimalValue(fraction)
                   = DecimalValue(fieldDigits) * Pow(10, -shift)

(***************************************************************************)
(* More properties of ExternalFileUnit                                     *)
(***************************************************************************)

\* AdvanceRecord is about to move a sequential formatted unit past the
\* newline-terminated record it has delivered.
MovesPastRecord ==
  /\ ~crashed /\ isReading_ /\ ~isUnformatted /\ access = "Sequential"
  /\ loads > 0 /\ recordLength # None
  /\ ~(endfileRecordNumber # None
         /\ currentRecordNumber + 1 >= endfileRecordNumber)
  /\ NewlineIn(file, offsetInFile, 0, Len(file) - offsetInFile) # None

\* C35: when the sequential formatted next-record operation moves past a
\* record, offsetInFile becomes the offset of the first byte behind that
\* record's '\n': no byte of the next record is skipped and no terminator
\* is read again.
C35_NextRecordAtFirstByte ==
  [][MovesPastRecord /\ loads' = loads + 1 =>
       offsetInFile' = offsetInFile
                         + NewlineIn(file, offsetInFile, 0,
                                     Len(file) - offsetInFile) + 1]_vars

\* C37: on fixed-length formatted output successive records do not overlap:
\* when AdvanceRecord has completed a record, the next one begins
\* recordLength bytes behind the start of that record, so what is emitted
\* for it leaves the record and its blank fill alone.
C37_FixedRecordsApart ==
  [][/\ ~crashed /\ ~isReading_ /\ ~isUnformatted /\ recordLength # None
     /\ result'.op = "AdvanceRecord" /\ result'.value = "true"
     /\ currentRecordNumber' = currentRecordNumber + 1
     => offsetInFile' = offsetInFile + recordLength]_vars

\* C36: NextChar of an internal input unit returns no byte from outside
\* the current record: the byte at positionInRecord where that is less
\* than recordLength, and at recordLength or behind a pad blank or nothing,
\* with end-of-record signalled in a non-advancing statement.
C36_NextCharInsideRecord ==
  /\ internalOut.op = "NextChar" /\ internal.isInput
  /\ internalOut.cond \notin {"End", "Crash"} /\ ~internal.crashed
  =>
    IF internal.positionInRecord < internal.recordLength
      THEN /\ internalOut.value
                = ToString(internal.elements[internal.at_]
                                            [internal.positionInRecord + 1])
           /\ internalOut.cond = "none"
      ELSE /\ internalOut.value = IF internal.pad THEN "32" ELSE "nullopt"
           /\ internalOut.cond = IF internal.nonAdvancing THEN "Eor"
                                 ELSE "none"

(***************************************************************************)
(* Properties of GetIoMsg                                                  *)
(***************************************************************************)

InitIoMsg ==
  /\ ErrInit /\ (tailCalls = FALSE)
  /\ MapInit
  /\ GetUnitMapInit
  /\ OpenInit
  /\ UnitInit
  /\ InternalInit
  /\ NumInit
  /\ MsgInit

SpecIoMsg == InitIoMsg /\ [][MsgNext]_vars

\* The first k bytes of the message, then blanks to the width.
Padded(text, width) ==
  [i \in 1..width |-> IF i <= Len(text) THEN text[i] ELSE 32]

\* C33: where there is a message, GetIoMsg stores exactly bufferLength
\* bytes, the first min(len, bufferLength) bytes of the message and then
\* blanks, reads at most len bytes of the message and stores nothing at
\* index bufferLength or behind.
C33_FillsExactly ==
  msgIn.from \in {"ioMsg_", "FortranErrorString"} =>
    /\ msgOut.ret = "true"
    /\ msgOut.buffer = Padded(msgIn.text, msgIn.bufferLength)
    /\ msgOut.behind = <<>>
    /\ msgOut.read <= Len(msgIn.text)
====
